---- MODULE Spec2Model ----
(***************************************************************************)
(* Model of the seshat radix trie (src/src/RadixTrie.cc, RadixNode.h).     *)
(* The heap of RadixNode objects is a function from node addresses to      *)
(* node records; the operations are translated statement by statement.     *)
(***************************************************************************)
EXTENDS Integers, Sequences, FiniteSets, TLC

\* ---------------------------------------------------------------- bounds
\* the words handed to the operations are the first NumWords of WordList
NumWords == 5

\* "a", "ab", "aa", "b", "ba", "aba", "abb", "bb" as byte strings
WordList ==
    << <<97>>, <<97, 98>>, <<97, 97>>, <<98>>, <<98, 97>>,
       <<97, 98, 97>>, <<97, 98, 98>>, <<98, 98>> >>

Words == {WordList[i] : i \in 1..NumWords}

\* the arguments of a call: a word or the empty string
Strings == Words \cup {<<>>}

\* nullptr: the one address that is never the address of a node
NULL == <<0>>

\* the elements of a sequence
Range(r) == {r[i] : i \in 1..Len(r)}

\* Whether plain char is a signed type is the compiler's choice (signed on
\* x86-64 Linux and Windows, unsigned on ARM Linux); a build keeps it.
VARIABLE char_is_signed

\* the value of the byte b held in a char, as operator< sees it
CharValue(b) == IF char_is_signed /\ b >= 128 THEN b - 256 ELSE b

\* comparison of two char values as done by operator< on char
CharLess(a, b) == CharValue(a) < CharValue(b)

\* ------------------------------------------------------------ RadixNode
\* mutant: a constructor that leaves parent_char at its default '\0'
RadixNode_default_parent_char(k, p, pc) ==
    [key |-> k, is_end |-> FALSE, parent |-> p, parent_char |-> 0,
     children |-> <<>>]

RadixNode(k, p, pc) ==
    [key |-> k, is_end |-> FALSE, parent |-> p, parent_char |-> pc,
     children |-> <<>>]

\* std::make_unique: an address that is not in use. Addresses are opaque
\* (the code only dereferences and copies them), so the allocator is free
\* to hand out any unused one; it tries hint first, which keeps the heaps
\* of equal trees equal.
NewAddr(h, hint) ==
    CHOOSE a \in {hint \o [i \in 1..k |-> 0] : k \in 0..Cardinality(DOMAIN h)} :
        a \notin DOMAIN h

\* mutant: the new pair is pushed at the back, whatever the position
VecInsert_at_back(v, it, x) == Append(v, x)

\* std::vector::insert before position it (1-based; Len+1 is end())
VecInsert(v, it, x) == SubSeq(v, 1, it - 1) \o <<x>> \o SubSeq(v, it, Len(v))

\* std::vector::erase of position it
VecErase(v, it) == SubSeq(v, 1, it - 1) \o SubSeq(v, it + 1, Len(v))

\* the addresses owned (transitively) by node a, a included
RECURSIVE Owned(_, _)
Owned(h, a) ==
    {a} \cup UNION {Owned(h, h[a].children[i].second) :
                        i \in 1..Len(h[a].children)}

\* std::lower_bound over the child vector, comparing pair.first with c
RECURSIVE lower_bound(_, _, _, _)
lower_bound(v, c, first, count) ==
    IF count <= 0 THEN first
    ELSE LET step == count \div 2
             mid == first + step
         IN IF CharLess(v[mid].first, c)
            THEN lower_bound(v, c, mid + 1, count - step - 1)
            ELSE lower_bound(v, c, first, step)

\* mutant: the position of the pair with the key c, else the end
find_child_unordered(v, c) ==
    IF \E i \in 1..Len(v) : v[i].first = c
    THEN CHOOSE i \in 1..Len(v) : v[i].first = c
    ELSE Len(v) + 1

find_child(v, c) == lower_bound(v, c, 1, Len(v))

End(v) == Len(v) + 1

RECURSIVE cpl_loop(_, _, _)
cpl_loop(s1, s2, i) ==
    LET min_len == IF Len(s1) < Len(s2) THEN Len(s1) ELSE Len(s2)
    IN IF i < min_len /\ s1[i + 1] = s2[i + 1] THEN cpl_loop(s1, s2, i + 1)
       ELSE i

common_prefix_length(s1, s2) == cpl_loop(s1, s2, 0)

\* string_view::substr(pos, n), clamped at the end of the string
Substr(s, pos, n) ==
    SubSeq(s, pos + 1, IF pos + n > Len(s) THEN Len(s) ELSE pos + n)

\* ------------------------------------------------------------- find_node
RECURSIVE find_node_loop(_, _, _, _)
find_node_loop(t, current, pos, word) ==
    IF ~(pos < Len(word)) THEN current
    ELSE   LET first_char == word[pos + 1]
                v == t.nodes[current].children
                it == find_child(v, first_char)
            IN IF it = End(v) \/ v[it].first # first_char THEN NULL
               ELSE LET child == v[it].second
                        child_key == t.nodes[child].key
                    IN IF pos + Len(child_key) > Len(word) THEN NULL
                       ELSE IF Substr(word, pos, Len(child_key)) # child_key
                            THEN NULL
                       ELSE find_node_loop(t, child,
                                           pos + Len(child_key), word)

find_node(t, word) ==
    IF t.root = NULL \/ word = <<>> THEN NULL
    ELSE find_node_loop(t, t.root, 0, word)

\* mutant: search that accepts any node the word leads to
search_any_node(t, word) == find_node(t, word) # NULL

search(t, word) ==
    LET node == find_node(t, word)
    IN node # NULL /\ t.nodes[node].is_end

empty(t) == t.word_count_ = 0

size(t) == t.word_count_

\* -------------------------------------------------------------- insert
\* the branch of insert that creates a new leaf under current
new_leaf(t, current, it, pos, word) ==
    LET first_char == word[pos + 1]
        key == Substr(word, pos, Len(word) - pos)
        a == NewAddr(t.nodes, current \o key)
        new_node == [RadixNode(key, current, first_char)
                        EXCEPT !.is_end = TRUE]
        v == t.nodes[current].children
        pr == [first |-> first_char, second |-> a]
    IN [t EXCEPT
          !.nodes = (a :> new_node) @@
                    [@ EXCEPT ![current].children = VecInsert(v, it, pr)],
          !.word_count_ = @ + 1]

\* mutant: the counter is incremented also when the node is already terminal
mark_end_always_counts(t, n) ==
    [t EXCEPT !.nodes[n].is_end = TRUE, !.word_count_ = @ + 1]

\* if (!n->is_end) { n->is_end = true; ++word_count_; }
mark_end(t, n) ==
    IF ~t.nodes[n].is_end
    THEN [t EXCEPT !.nodes[n].is_end = TRUE, !.word_count_ = @ + 1]
    ELSE t

\* mutant: the demoted child keeps its whole key
demoted_key_unshortened(child_key, common_len) == child_key

\* old_child->key.assign(child_key.data() + common_len, length - common_len)
demoted_key(child_key, common_len) ==
    Substr(child_key, common_len, Len(child_key) - common_len)

\* mutant: the intermediate node takes the is_end flag of the old child
split_node_moves_flag(t, current, first_char, common_len, child_key) ==
    LET v == t.nodes[current].children
        it == find_child(v, first_char)
        old_child == v[it].second
        m == NewAddr(t.nodes, current \o Substr(child_key, 0, common_len))
        new_key == demoted_key(child_key, common_len)
        old_first_char == new_key[1]
        intermediate ==
            [RadixNode(Substr(child_key, 0, common_len), current, first_char)
                EXCEPT !.is_end = t.nodes[old_child].is_end,
                       !.children =
                    VecInsert(<<>>, find_child(<<>>, old_first_char),
                              [first |-> old_first_char,
                               second |-> old_child])]
    IN [t EXCEPT
          !.nodes = (m :> intermediate) @@
                    [@ EXCEPT ![old_child].key = new_key,
                              ![old_child].is_end = FALSE,
                              ![old_child].parent = m,
                              ![old_child].parent_char = old_first_char,
                              ![current].children[it].second = m]]

\* mutant: the old child keeps the parent it had
split_node_keeps_parent(t, current, first_char, common_len, child_key) ==
    LET v == t.nodes[current].children
        it == find_child(v, first_char)
        old_child == v[it].second
        m == NewAddr(t.nodes, current \o Substr(child_key, 0, common_len))
        new_key == demoted_key(child_key, common_len)
        old_first_char == new_key[1]
        intermediate ==
            [RadixNode(Substr(child_key, 0, common_len), current, first_char)
                EXCEPT !.children =
                    VecInsert(<<>>, find_child(<<>>, old_first_char),
                              [first |-> old_first_char,
                               second |-> old_child])]
    IN [t EXCEPT
          !.nodes = (m :> intermediate) @@
                    [@ EXCEPT ![old_child].key = new_key,
                              ![old_child].parent_char = old_first_char,
                              ![current].children[it].second = m]]

split_node(t, current, first_char, common_len, child_key) ==
    LET v == t.nodes[current].children
        it == find_child(v, first_char)
        old_child == v[it].second
        m == NewAddr(t.nodes, current \o Substr(child_key, 0, common_len))
        new_key == demoted_key(child_key, common_len)
        old_first_char == new_key[1]
        intermediate ==
            [RadixNode(Substr(child_key, 0, common_len), current, first_char)
                EXCEPT !.children =
                    VecInsert(<<>>, find_child(<<>>, old_first_char),
                              [first |-> old_first_char,
                               second |-> old_child])]
    IN [t EXCEPT
          !.nodes = (m :> intermediate) @@
                    [@ EXCEPT ![old_child].key = new_key,
                              ![old_child].parent = m,
                              ![old_child].parent_char = old_first_char,
                              ![current].children[it].second = m]]

RECURSIVE insert_loop(_, _, _, _)
insert_loop(t, current, pos, word) ==
    IF ~(pos < Len(word)) THEN t
    ELSE
       LET first_char == word[pos + 1]
           v == t.nodes[current].children
           it == find_child(v, first_char)
       IN IF it = End(v) \/ v[it].first # first_char
          THEN new_leaf(t, current, it, pos, word)
          ELSE
          LET child == v[it].second
              child_key == t.nodes[child].key
              remaining == Substr(word, pos, Len(word) - pos)
              common_len == common_prefix_length(child_key, remaining)
          IN IF common_len = Len(child_key)
             THEN IF pos + common_len = Len(word)
                  THEN mark_end(t, child)
                  ELSE insert_loop(t, child, pos + common_len, word)
             ELSE
             LET t2 == split_node(t, current, first_char, common_len,
                                  child_key)
                 v2 == t2.nodes[current].children
                 cur2 == v2[find_child(v2, first_char)].second
             IN IF pos + common_len = Len(word)
                THEN mark_end(t2, cur2)
                ELSE insert_loop(t2, cur2, pos + common_len, word)

insert(t, word) ==
    IF word = <<>> THEN t ELSE insert_loop(t, t.root, 0, word)

\* ----------------------------------------------------------- starts_with
RECURSIVE starts_with_loop(_, _, _, _)
starts_with_loop(t, current, pos, prefix) ==
    IF ~(pos < Len(prefix) /\ current # NULL) THEN pos = Len(prefix)
    ELSE
    LET first_char == prefix[pos + 1]
        v == t.nodes[current].children
        it == find_child(v, first_char)
    IN IF it = End(v) \/ v[it].first # first_char THEN FALSE
       ELSE
       LET child == v[it].second
           child_key == t.nodes[child].key
       IN IF pos + Len(child_key) > Len(prefix)
          THEN Substr(prefix, pos, Len(prefix) - pos) =
               Substr(child_key, 0, Len(prefix) - pos)
          ELSE IF Substr(prefix, pos, Len(child_key)) # child_key THEN FALSE
          ELSE starts_with_loop(t, child, pos + Len(child_key), prefix)

starts_with(t, prefix) ==
    IF prefix = <<>> THEN ~empty(t)
    ELSE starts_with_loop(t, t.root, 0, prefix)

\* ----------------------------------------------------- words_with_prefix
RECURSIVE collect_words_from_node(_, _, _, _)
RECURSIVE collect_children(_, _, _, _, _)
RECURSIVE collect_children_backwards(_, _, _, _, _)
\* mutant: the children are walked from the last to the first
collect_children_backwards(t, v, i, full_word, result) ==
    IF i > Len(v) THEN result
    ELSE collect_children_backwards(t, v, i + 1, full_word,
             collect_words_from_node(t, v[Len(v) + 1 - i].second, full_word,
                                     result))

\* the range-for over node->children, from index i on
collect_children(t, v, i, full_word, result) ==
    IF i > Len(v) THEN result
    ELSE collect_children(t, v, i + 1, full_word,
             collect_words_from_node(t, v[i].second, full_word, result))

collect_words_from_node(t, node, prefix, result) ==
    IF node = NULL THEN result
    ELSE
    LET full_word == prefix \o t.nodes[node].key
        r1 == IF t.nodes[node].is_end THEN Append(result, full_word)
              ELSE result
    IN collect_children(t, t.nodes[node].children, 1, full_word, r1)

\* mutant: the whole prefix is handed on when it ends inside a key
edge_mid_base_whole(prefix, pos) == prefix

\* std::string(prefix.substr(0, pos)): the path down to the child's parent
edge_mid_base(prefix, pos) == Substr(prefix, 0, pos)

RECURSIVE words_with_prefix_loop(_, _, _, _)
words_with_prefix_loop(t, current, pos, prefix) ==
    IF ~(pos < Len(prefix) /\ current # NULL)
    THEN IF pos = Len(prefix) /\ current # NULL
         THEN LET ckey == t.nodes[current].key
                  base_prefix ==
                      IF ckey # <<>> /\ Len(prefix) >= Len(ckey)
                      THEN Substr(prefix, 0, Len(prefix) - Len(ckey))
                      ELSE prefix
              IN collect_words_from_node(t, current, base_prefix, <<>>)
         ELSE <<>>
    ELSE
    LET first_char == prefix[pos + 1]
        v == t.nodes[current].children
        it == find_child(v, first_char)
    IN IF it = End(v) \/ v[it].first # first_char THEN <<>>
       ELSE
       LET child == v[it].second
           child_key == t.nodes[child].key
       IN IF pos + Len(child_key) > Len(prefix)
          THEN IF Substr(prefix, pos, Len(prefix) - pos) =
                  Substr(child_key, 0, Len(prefix) - pos)
               THEN collect_words_from_node(t, child,
                                            edge_mid_base(prefix, pos), <<>>)
               ELSE <<>>
          ELSE IF Substr(prefix, pos, Len(child_key)) # child_key THEN <<>>
          ELSE words_with_prefix_loop(t, child, pos + Len(child_key), prefix)

words_with_prefix(t, prefix) ==
    IF prefix = <<>> THEN collect_words_from_node(t, t.root, <<>>, <<>>)
    ELSE words_with_prefix_loop(t, t.root, 0, prefix)

\* ---------------------------------------------------------------- remove
\* vector::erase of the pair at pit: the unique_ptr it holds is destroyed,
\* and with it the node and everything the node owns
erase_child(t, parent, pit) ==
    LET v == t.nodes[parent].children
        gone == Owned(t.nodes, v[pit].second)
        h2 == [t.nodes EXCEPT ![parent].children = VecErase(v, pit)]
    IN [t EXCEPT !.nodes = [a \in (DOMAIN h2) \ gone |-> h2[a]]]

\* the upward loop of cleanup_orphaned_nodes
RECURSIVE cleanup_up(_, _)
cleanup_up(t, current) ==
    IF ~(current # NULL /\ t.nodes[current].parent # NULL) THEN t
    ELSE
    LET parent == t.nodes[current].parent
        char_to_remove == t.nodes[current].parent_char
    IN IF t.nodes[current].children = <<>> /\ ~t.nodes[current].is_end
       THEN LET pv == t.nodes[parent].children
                pit == find_child(pv, char_to_remove)
                t2 == IF pit # End(pv) /\ pv[pit].first = char_to_remove
                      THEN erase_child(t, parent, pit)
                      ELSE t
            IN cleanup_up(t2, parent)
       ELSE t

\* the downward loop of cleanup_orphaned_nodes: the node that spells word
RECURSIVE cleanup_down(_, _, _, _)
cleanup_down(t, current, pos, word) ==
    IF ~(pos < Len(word) /\ current # NULL) THEN current
    ELSE
    LET first_char == word[pos + 1]
        v == t.nodes[current].children
        it == find_child(v, first_char)
    IN IF it = End(v) \/ v[it].first # first_char THEN NULL
       ELSE
       LET child == v[it].second
           child_key == t.nodes[child].key
       IN IF pos + Len(child_key) > Len(word) THEN NULL
          ELSE IF Substr(word, pos, Len(child_key)) # child_key THEN NULL
          ELSE cleanup_down(t, child, pos + Len(child_key), word)

\* mutant: the walk up starts whether or not the node is marked as end
cleanup_orphaned_nodes_unguarded(t, word) ==
    IF word = <<>> \/ t.root = NULL THEN t
    ELSE
    LET current == cleanup_down(t, t.root, 0, word)
    IN IF current # NULL
       THEN cleanup_up(t, current)
       ELSE t

cleanup_orphaned_nodes(t, word) ==
    IF word = <<>> \/ t.root = NULL THEN t
    ELSE
    LET current == cleanup_down(t, t.root, 0, word)
    IN IF current # NULL /\ t.nodes[current].is_end
       THEN cleanup_up(t, current)
       ELSE t

\* mutant: remove that forgets to decrement the counter
remove_no_decrement(t, word) ==
    IF word = <<>> \/ t.root = NULL THEN [trie |-> t, ret |-> FALSE]
    ELSE
    LET node == find_node(t, word)
    IN IF node # NULL /\ t.nodes[node].is_end
       THEN LET t1 == [t EXCEPT !.nodes[node].is_end = FALSE]
            IN [trie |-> cleanup_orphaned_nodes(t1, word), ret |-> TRUE]
       ELSE [trie |-> t, ret |-> FALSE]

\* mutant: remove that does not look at is_end
remove_unchecked(t, word) ==
    IF word = <<>> \/ t.root = NULL THEN [trie |-> t, ret |-> FALSE]
    ELSE
    LET node == find_node(t, word)
    IN IF node # NULL
       THEN LET t1 == [t EXCEPT !.nodes[node].is_end = FALSE,
                                !.word_count_ = @ - 1]
            IN [trie |-> cleanup_orphaned_nodes(t1, word), ret |-> TRUE]
       ELSE [trie |-> t, ret |-> FALSE]

\* remove: the trie after the call and the value returned
remove(t, word) ==
    IF word = <<>> \/ t.root = NULL THEN [trie |-> t, ret |-> FALSE]
    ELSE
    LET node == find_node(t, word)
    IN IF node # NULL /\ t.nodes[node].is_end
       THEN LET t1 == [t EXCEPT !.nodes[node].is_end = FALSE,
                                !.word_count_ = @ - 1]
            IN [trie |-> cleanup_orphaned_nodes(t1, word), ret |-> TRUE]
       ELSE [trie |-> t, ret |-> FALSE]

\* mutant: clear that forgets to reset the counter
clear_keeps_count(t) ==
    LET a == NewAddr(<<>>, <<>>)
    IN [nodes |-> (a :> RadixNode(<<>>, NULL, 0)), root |-> a,
        word_count_ |-> t.word_count_]

\* mutant: the counter is reset and the nodes are kept
clear_keeps_root(t) == [t EXCEPT !.word_count_ = 0]

\* clear: a new root node replaces the old one, which is destroyed
clear(t) ==
    LET a == NewAddr(<<>>, <<>>)
    IN [nodes |-> (a :> RadixNode(<<>>, NULL, 0)), root |-> a,
        word_count_ |-> 0]

\* RadixTrie::RadixTrie(): a root node and no words
NewTrie ==
    LET a == NewAddr(<<>>, <<>>)
    IN [nodes |-> (a :> RadixNode(<<>>, NULL, 0)), root |-> a,
        word_count_ |-> 0]

\* ------------------------------------------------------- pattern_search
\* '?' and '*'
QuestionMark == 63
Star == 42

\* the patterns handed to pattern_search: "", "*", "a*", "?", "a?", "*a"
Patterns ==
    {<<>>, <<Star>>, <<97, Star>>, <<QuestionMark>>, <<97, QuestionMark>>,
     <<Star, 97>>}

\* std::string::substr(pos): the rest of the string from pos on
SubstrFrom(s, pos) == SubSeq(s, pos + 1, Len(s))

\* mutant: the '*' left at the end of the pattern are not skipped
skip_trailing_stars_none(pattern, pattern_idx) == pattern_idx

\* the loop that skips the '*' left at the end of the pattern
RECURSIVE skip_trailing_stars(_, _)
skip_trailing_stars(pattern, pattern_idx) ==
    IF pattern_idx < Len(pattern) /\ pattern[pattern_idx + 1] = Star
    THEN skip_trailing_stars(pattern, pattern_idx + 1)
    ELSE pattern_idx

RECURSIVE matches_pattern(_, _)
RECURSIVE matches_loop(_, _, _, _)
RECURSIVE matches_star(_, _, _, _)
\* the for loop of the '*' branch: the rest of the pattern against every
\* suffix word.substr(i), i <= word_len
matches_star(word, pattern, pattern_idx, i) ==
    IF ~(i <= Len(word)) THEN FALSE
    ELSE IF matches_pattern(SubstrFrom(word, i),
                            SubstrFrom(pattern, pattern_idx + 1))
         THEN TRUE
    ELSE matches_star(word, pattern, pattern_idx, i + 1)

\* the main while loop and the statements after it
matches_loop(word, pattern, word_idx, pattern_idx) ==
    IF ~(word_idx < Len(word) /\ pattern_idx < Len(pattern))
    THEN /\ word_idx = Len(word)
         /\ skip_trailing_stars(pattern, pattern_idx) = Len(pattern)
    ELSE IF pattern[pattern_idx + 1] = QuestionMark
         THEN matches_loop(word, pattern, word_idx + 1, pattern_idx + 1)
    ELSE IF pattern[pattern_idx + 1] = Star
         THEN IF pattern_idx + 1 = Len(pattern) THEN TRUE
              ELSE matches_star(word, pattern, pattern_idx, word_idx)
    ELSE IF pattern[pattern_idx + 1] = word[word_idx + 1]
         THEN matches_loop(word, pattern, word_idx + 1, pattern_idx + 1)
    ELSE FALSE

matches_pattern(word, pattern) == matches_loop(word, pattern, 0, 0)

\* mutant: every node on the way is reported, terminal or not
pattern_visit_any_node(t, node, full_word, pattern, results) ==
    IF matches_pattern(full_word, pattern) THEN Append(results, full_word)
    ELSE results

\* if (node->is_end && matches_pattern(...)) results.push_back(full_word)
pattern_visit(t, node, full_word, pattern, results) ==
    IF t.nodes[node].is_end /\ matches_pattern(full_word, pattern)
    THEN Append(results, full_word)
    ELSE results

RECURSIVE pattern_match_recursive(_, _, _, _, _)
RECURSIVE pattern_match_children(_, _, _, _, _, _)
\* the range-for over node->children, from index i on
pattern_match_children(t, v, i, full_word, pattern, results) ==
    IF i > Len(v) THEN results
    ELSE pattern_match_children(t, v, i + 1, full_word, pattern,
             pattern_match_recursive(t, v[i].second, full_word, pattern,
                                     results))

pattern_match_recursive(t, node, current_word, pattern, results) ==
    IF node = NULL THEN results
    ELSE
    LET full_word == current_word \o t.nodes[node].key
    IN pattern_match_children(t, t.nodes[node].children, 1, full_word,
           pattern, pattern_visit(t, node, full_word, pattern, results))

\* std::string operator<: lexicographic on the bytes as unsigned char
RECURSIVE StringLess(_, _)
StringLess(x, y) ==
    IF y = <<>> THEN FALSE
    ELSE IF x = <<>> THEN TRUE
    ELSE IF x[1] # y[1] THEN x[1] < y[1]
    ELSE StringLess(Tail(x), Tail(y))

\* std::sort with operator<: the ascending arrangement of the elements
RECURSIVE SortInsert(_, _)
SortInsert(sorted, x) ==
    IF sorted = <<>> THEN <<x>>
    ELSE IF StringLess(x, Head(sorted)) THEN <<x>> \o sorted
    ELSE <<Head(sorted)>> \o SortInsert(Tail(sorted), x)

RECURSIVE Sort(_)
Sort(r) == IF r = <<>> THEN <<>> ELSE SortInsert(Sort(Tail(r)), Head(r))

pattern_search(t, pattern) ==
    IF pattern = <<>> \/ empty(t) THEN <<>>
    ELSE Sort(pattern_match_recursive(t, t.root, <<>>, pattern, <<>>))

\* ------------------------------------------------------ get_memory_stats
\* sizeof(RadixNode) and sizeof(RadixTrie) of the x86-64 build
SizeofRadixNode == 80
SizeofRadixTrie == 16

RECURSIVE count_nodes(_, _, _)
RECURSIVE count_nodes_children(_, _, _, _)
\* the range-for over node->children, from index i on
count_nodes_children(t, v, i, acc) ==
    IF i > Len(v) THEN acc
    ELSE count_nodes_children(t, v, i + 1, count_nodes(t, v[i].second, acc))

\* the lambda count_nodes; acc holds node_count and string_bytes
count_nodes(t, node, acc) ==
    IF node = NULL THEN acc
    ELSE count_nodes_children(t, t.nodes[node].children, 1,
             [node_count |-> acc.node_count + 1,
              string_bytes |-> acc.string_bytes + Len(t.nodes[node].key)])

\* mutant: the nodes are counted also when the trie is empty
get_memory_stats_always_walks(t) ==
    LET c == count_nodes(t, t.root, [node_count |-> 0, string_bytes |-> 0])
        total == SizeofRadixTrie + c.node_count * SizeofRadixNode
                 + c.string_bytes
    IN [total_bytes |-> total,
        node_count |-> c.node_count,
        string_bytes |-> c.string_bytes,
        overhead_bytes |-> total - c.string_bytes,
        bytes_per_word |-> <<IF empty(t) THEN 0 ELSE total,
                             IF empty(t) THEN 1 ELSE t.word_count_>>]

\* bytes_per_word is a double: kept as the pair <<dividend, divisor>>
get_memory_stats(t) ==
    IF empty(t)
    THEN [total_bytes |-> SizeofRadixTrie + SizeofRadixNode,
          node_count |-> 1,
          string_bytes |-> 0,
          overhead_bytes |-> SizeofRadixTrie + SizeofRadixNode,
          bytes_per_word |-> <<0, 1>>]
    ELSE
    LET c == count_nodes(t, t.root, [node_count |-> 0, string_bytes |-> 0])
        total == SizeofRadixTrie + c.node_count * SizeofRadixNode
                 + c.string_bytes
    IN [total_bytes |-> total,
        node_count |-> c.node_count,
        string_bytes |-> c.string_bytes,
        overhead_bytes |-> total - c.string_bytes,
        bytes_per_word |-> <<total, t.word_count_>>]

\* ---------------------------------- get_height_stats, get_word_metrics
\* *std::min_element and *std::max_element of a non-empty vector
RECURSIVE min_element(_)
min_element(v) ==
    IF Len(v) = 1 THEN v[1]
    ELSE LET m == min_element(Tail(v)) IN IF m < v[1] THEN m ELSE v[1]

RECURSIVE max_element(_)
max_element(v) ==
    IF Len(v) = 1 THEN v[1]
    ELSE LET m == max_element(Tail(v)) IN IF v[1] < m THEN m ELSE v[1]

\* std::accumulate(v.begin(), v.end(), 0)
RECURSIVE accumulate(_)
accumulate(v) == IF v = <<>> THEN 0 ELSE v[1] + accumulate(Tail(v))

\* for (int x : v) frequency[x]++;
frequency_of(v) ==
    [k \in Range(v) |-> Cardinality({i \in 1..Len(v) : v[i] = k})]

\* The orders in which a range-for can walk the keys of the
\* std::unordered_map frequency: the standard leaves the order to the
\* library, so every arrangement of the keys is one.
IterationOrders(v) ==
    LET keys == Range(v)
        n == Cardinality(keys)
    IN {o \in [1..n -> keys] : \A i, j \in 1..n : i # j => o[i] # o[j]}

\* the loop `if (count > max_count) { max_count = count; mode = key; }`
\* over the map in the order given
RECURSIVE mode_scan(_, _, _, _, _)
mode_scan(order, frequency, i, max_count, mode) ==
    IF i > Len(order) THEN mode
    ELSE IF frequency[order[i]] > max_count
         THEN mode_scan(order, frequency, i + 1, frequency[order[i]],
                        order[i])
    ELSE mode_scan(order, frequency, i + 1, max_count, mode)

\* mutant: a depth is recorded for every node, terminal or not
heights_visit_every_node(t, node, current_depth, heights) ==
    Append(heights, current_depth)

\* if (node->is_end) heights.push_back(current_depth);
heights_visit(t, node, current_depth, heights) ==
    IF t.nodes[node].is_end THEN Append(heights, current_depth) ELSE heights

RECURSIVE calculate_heights_recursive(_, _, _, _)
RECURSIVE calculate_heights_children(_, _, _, _, _)
\* the range-for over node->children, from index i on
calculate_heights_children(t, v, i, current_depth, heights) ==
    IF i > Len(v) THEN heights
    ELSE calculate_heights_children(t, v, i + 1, current_depth,
             calculate_heights_recursive(t, v[i].second, current_depth + 1,
                                         heights))

calculate_heights_recursive(t, node, current_depth, heights) ==
    IF node = NULL THEN heights
    ELSE calculate_heights_children(t, t.nodes[node].children, 1,
             current_depth,
             heights_visit(t, node, current_depth, heights))

\* average_height is a double: kept as the pair <<dividend, divisor>>.
\* order is the order in which the map frequency is walked.
get_height_stats(t, order) ==
    IF empty(t)
    THEN [min_height |-> 0, max_height |-> 0, average_height |-> <<0, 1>>,
          mode_height |-> 0, all_heights |-> <<>>]
    ELSE
    LET heights == calculate_heights_recursive(t, t.root, 0, <<>>)
    IN [min_height |-> min_element(heights),
        max_height |-> max_element(heights),
        average_height |-> <<accumulate(heights), Len(heights)>>,
        mode_height |-> mode_scan(order, frequency_of(heights), 1, 0, 0),
        all_heights |-> heights]

\* mutant: the length grows by one per node instead of by the key length
metrics_new_length_per_node(t, node, current_length) == current_length + 1

\* int new_length = current_length + node->key.length();
metrics_new_length(t, node, current_length) ==
    current_length + Len(t.nodes[node].key)

RECURSIVE collect_word_lengths_recursive(_, _, _, _)
RECURSIVE collect_word_lengths_children(_, _, _, _, _)
\* the range-for over node->children, from index i on
collect_word_lengths_children(t, v, i, new_length, lengths) ==
    IF i > Len(v) THEN lengths
    ELSE collect_word_lengths_children(t, v, i + 1, new_length,
             collect_word_lengths_recursive(t, v[i].second, new_length,
                                            lengths))

collect_word_lengths_recursive(t, node, current_length, lengths) ==
    IF node = NULL THEN lengths
    ELSE
    LET new_length == metrics_new_length(t, node, current_length)
    IN collect_word_lengths_children(t, t.nodes[node].children, 1,
           new_length,
           IF t.nodes[node].is_end THEN Append(lengths, new_length)
           ELSE lengths)

\* length_distribution.resize(max_length + 1, 0); then one increment per
\* length. The vector is indexed from 0: entry k is at position k + 1.
length_distribution_of(lengths, max_length) ==
    [p \in 1..(max_length + 1) |->
        Cardinality({i \in 1..Len(lengths) : lengths[i] = p - 1})]

get_word_metrics(t, order) ==
    IF empty(t)
    THEN [min_length |-> 0, max_length |-> 0, average_length |-> <<0, 1>>,
          mode_length |-> 0, length_distribution |-> <<>>,
          total_characters |-> 0]
    ELSE
    LET lengths == collect_word_lengths_recursive(t, t.root, 0, <<>>)
        total_chars == accumulate(lengths)
    IN [min_length |-> min_element(lengths),
        max_length |-> max_element(lengths),
        average_length |-> <<total_chars, Len(lengths)>>,
        mode_length |-> mode_scan(order, frequency_of(lengths), 1, 0, 0),
        length_distribution |->
            length_distribution_of(lengths, max_element(lengths)),
        total_characters |-> total_chars]

\* ------------------------------------------------- bulk_insert_from_file
\* c == '\n' || c == '\r'
IsDelim(c) == c = 10 \/ c = 13

\* std::isspace in the "C" locale: space, \t, \n, \v, \f, \r
IsSpace(c) == c = 32 \/ c \in 9..13

\* while (e > b && isspace(s[e - 1])) --e;
RECURSIVE trim_end(_, _, _)
trim_end(s, b, e) ==
    IF e > b /\ IsSpace(s[e]) THEN trim_end(s, b, e - 1) ELSE e

\* while (b < e && isspace(s[b])) ++b;
RECURSIVE trim_begin(_, _, _)
trim_begin(s, b, e) ==
    IF b < e /\ IsSpace(s[b + 1]) THEN trim_begin(s, b + 1, e) ELSE b

\* mutant: a record is counted even when nothing is left after trimming
feed_record_counts_blank(st, s) ==
    LET e == trim_end(s, 0, Len(s))
        b == trim_begin(s, 0, e)
    IN IF e > b
       THEN [st EXCEPT !.trie = insert(@, Substr(s, b, e - b)),
                       !.words_inserted = @ + 1,
                       !.fed = Append(@, Substr(s, b, e - b))]
       ELSE [st EXCEPT !.words_inserted = @ + 1]

\* trim s; if (e > b) { insert(word_view); ++words_inserted; }
\* st.fed lists the words handed to insert, in order.
feed_record(st, s) ==
    LET e == trim_end(s, 0, Len(s))
        b == trim_begin(s, 0, e)
    IN IF e > b
       THEN [st EXCEPT !.trie = insert(@, Substr(s, b, e - b)),
                       !.words_inserted = @ + 1,
                       !.fed = Append(@, Substr(s, b, e - b))]
       ELSE st

\* while (i + 1 < bytes_read && buffer[i + 1] is '\n' or '\r') ++i;
RECURSIVE skip_delims(_, _, _)
skip_delims(buffer, bytes_read, i) ==
    IF i + 1 < bytes_read /\ IsDelim(buffer[i + 2])
    THEN skip_delims(buffer, bytes_read, i + 1)
    ELSE i

\* mutant: a partial line at the end of the buffer replaces the carry
keep_partial_overwrites(st, buffer, bytes_read, line_start) ==
    IF line_start < bytes_read
    THEN [st EXCEPT !.carry =
              Substr(buffer, line_start, bytes_read - line_start)]
    ELSE st

\* if (line_start < bytes_read) carry.append(buffer + line_start, ...)
keep_partial(st, buffer, bytes_read, line_start) ==
    IF line_start < bytes_read
    THEN [st EXCEPT !.carry =
              @ \o Substr(buffer, line_start, bytes_read - line_start)]
    ELSE st

\* mutant: the carry is not cleared after its record was handed over
line_boundary_keeps_carry(st, buffer, line_start, i) ==
    LET seg_len == i - line_start
    IN IF seg_len > 0 \/ st.carry # <<>>
       THEN IF st.carry # <<>>
            THEN feed_record(st, st.carry \o
                                 Substr(buffer, line_start, seg_len))
            ELSE feed_record(st, Substr(buffer, line_start, seg_len))
       ELSE st

\* the body of `if (c == '\n' || c == '\r')` up to the skip loop
line_boundary(st, buffer, line_start, i) ==
    LET seg_len == i - line_start
    IN IF seg_len > 0 \/ st.carry # <<>>
       THEN IF st.carry # <<>>
            THEN [feed_record(st, st.carry \o
                                  Substr(buffer, line_start, seg_len))
                     EXCEPT !.carry = <<>>]
            ELSE feed_record(st, Substr(buffer, line_start, seg_len))
       ELSE st

\* the for loop over the bytes read, and the statement after it
RECURSIVE scan_chunk(_, _, _, _, _)
scan_chunk(st, buffer, bytes_read, i, line_start) ==
    IF ~(i < bytes_read)
    THEN keep_partial(st, buffer, bytes_read, line_start)
    ELSE IF IsDelim(buffer[i + 1])
         THEN LET st2 == line_boundary(st, buffer, line_start, i)
                  i2 == skip_delims(buffer, bytes_read, i)
              IN scan_chunk(st2, buffer, bytes_read, i2 + 1, i2 + 1)
    ELSE scan_chunk(st, buffer, bytes_read, i + 1, line_start)

\* std::ifstream: is_open(), the read position, eofbit, failbit, badbit
ClosedStream ==
    [is_open |-> FALSE, pos |-> 0, eofbit |-> FALSE, failbit |-> FALSE,
     badbit |-> FALSE]

\* std::ifstream file(path, std::ios::binary)
open_stream(can_open) ==
    [ClosedStream EXCEPT !.is_open = can_open, !.failbit = ~can_open]

\* file.read(buffer, n) and file.gcount(): the stream after the call and
\* the bytes it delivered. io_error is the device failing during the call.
stream_read(f, contents, n, io_error) ==
    IF ~f.is_open \/ f.failbit \/ f.badbit \/ f.eofbit
    THEN [stream |-> [f EXCEPT !.failbit = TRUE], bytes |-> <<>>]
    ELSE IF io_error
    THEN [stream |-> [f EXCEPT !.badbit = TRUE], bytes |-> <<>>]
    ELSE
    LET avail == Len(contents) - f.pos
        k == IF n < avail THEN n ELSE avail
    IN [stream |-> [f EXCEPT !.pos = @ + k,
                             !.eofbit = k < n,
                             !.failbit = k < n],
        bytes |-> Substr(contents, f.pos, k)]

\* mutant: the stream is used without looking at is_open()
open_check_skipped(f) == FALSE

\* if (!file.is_open()) throw std::runtime_error(...)
open_check_throws(f) == ~f.is_open

\* one iteration of `while (!file.eof())`: read, break on bytes_read <= 0,
\* else scan the chunk. `more` tells whether the loop goes on.
\* mutant: no break when nothing was read
ingest_iteration_no_break(st, f, contents, buffer_size, io_error) ==
    LET r == stream_read(f, contents, buffer_size, io_error)
        bytes_read == Len(r.bytes)
    IN [st |-> scan_chunk(st, r.bytes, bytes_read, 0, 0),
        stream |-> r.stream,
        more |-> ~r.stream.eofbit]

ingest_iteration(st, f, contents, buffer_size, io_error) ==
    LET r == stream_read(f, contents, buffer_size, io_error)
        bytes_read == Len(r.bytes)
    IN IF bytes_read <= 0
       THEN [st |-> st, stream |-> r.stream, more |-> FALSE]
       ELSE [st |-> scan_chunk(st, r.bytes, bytes_read, 0, 0),
             stream |-> r.stream,
             more |-> ~r.stream.eofbit]

\* mutant: the carry left over after the loop is dropped
ingest_tail_dropped(st) == st

\* after the loop: the carry left over is the last line
ingest_tail(st) ==
    IF st.carry # <<>> THEN feed_record(st, st.carry) ELSE st

\* ------------------------------------------- the TypeScript class Seshat
\* the white space String.prototype.trim removes, among the bytes below
\* 0x80: TAB, LF, VT, FF, CR, SP
JsIsWhiteSpace(c) == c \in {9, 10, 11, 12, 13, 32}

\* word.trim()
RECURSIVE js_trim(_)
js_trim(word) ==
    IF word = <<>> THEN word
    ELSE IF JsIsWhiteSpace(Head(word)) THEN js_trim(Tail(word))
    ELSE IF JsIsWhiteSpace(word[Len(word)])
         THEN js_trim(SubSeq(word, 1, Len(word) - 1))
    ELSE word

\* mutant: only the empty string is refused
validateWord_throws_on_empty(word) == word = <<>>

\* validateWord: if (!word || word.trim().length === 0) throw new Error
validateWord_throws(word) == word = <<>> \/ Len(js_trim(word)) = 0

\* String.prototype.toLowerCase on the bytes below 0x80
toLowerCase(word) ==
    [i \in 1..Len(word) |->
        IF word[i] \in 65..90 THEN word[i] + 32 ELSE word[i]]

\* normalizeWord: this.ignoreCase ? word.toLowerCase() : word
normalizeWord(ignore_case, word) ==
    IF ignore_case THEN toLowerCase(word) ELSE word

\* Seshat.insert(word) of the TypeScript class, down to the core through
\* Seshat::Insert of the addon: it throws, or the word is inserted
Seshat_insert(t, ignore_case, word) ==
    IF validateWord_throws(word)
    THEN [threw |-> TRUE, trie |-> t, word |-> <<>>]
    ELSE [threw |-> FALSE,
          trie |-> insert(t, normalizeWord(ignore_case, word)),
          word |-> normalizeWord(ignore_case, word)]

\* Seshat::InsertBatch of the addon: every non-empty string of the array is
\* inserted and counted
RECURSIVE InsertBatch(_, _, _, _)
InsertBatch(t, words, i, count) ==
    IF i > Len(words) THEN [trie |-> t, count |-> count]
    ELSE IF words[i] # <<>>
    THEN InsertBatch(insert(t, words[i]), words, i + 1, count + 1)
    ELSE InsertBatch(t, words, i + 1, count)

\* words.filter(word => word && ... && word.trim().length > 0)
\*      .map(word => this.normalizeWord(word))
normalizedWords(ignore_case, words) ==
    LET kept == SelectSeq(words,
                   LAMBDA word : word # <<>> /\ Len(js_trim(word)) > 0)
    IN [i \in 1..Len(kept) |-> normalizeWord(ignore_case, kept[i])]

\* Seshat.insertBatch(words) of the TypeScript class
Seshat_insertBatch(t, ignore_case, words) ==
    InsertBatch(t, normalizedWords(ignore_case, words), 1, 0)

\* Seshat.search(word) of the TypeScript class
Seshat_search(t, ignore_case, word) ==
    IF Len(js_trim(word)) = 0 THEN FALSE
    ELSE search(t, normalizeWord(ignore_case, word))

\* Seshat.getWordsWithPrefix(prefix) of the TypeScript class
Seshat_getWordsWithPrefix(t, ignore_case, prefix) ==
    words_with_prefix(t, normalizeWord(ignore_case, prefix))

\* Seshat.toJSON()
Seshat_toJSON(t, ignore_case) ==
    [words |-> Seshat_getWordsWithPrefix(t, ignore_case, <<>>),
     options |-> [ignoreCase |-> ignore_case]]

\* for (const word of json.words) trie.insert(word): a throw of insert
\* ends fromJSON
RECURSIVE fromJSON_loop(_, _, _, _)
fromJSON_loop(t, ignore_case, words, i) ==
    IF i > Len(words) THEN [threw |-> FALSE, trie |-> t]
    ELSE LET r == Seshat_insert(t, ignore_case, words[i])
         IN IF r.threw THEN [threw |-> TRUE, trie |-> t]
            ELSE fromJSON_loop(r.trie, ignore_case, words, i + 1)

\* Seshat.fromJSON(json): the instance made, or the throw
Seshat_fromJSON(json) ==
    LET r == fromJSON_loop(NewTrie, json.options.ignoreCase, json.words, 1)
    IN [threw |-> r.threw, trie |-> r.trie,
        ignoreCase |-> json.options.ignoreCase]

\* ------------------------------------------------------------- the state
VARIABLES
    nodes,        \* the heap: address -> RadixNode
    root,         \* RadixTrie::root
    word_count_,  \* RadixTrie::word_count_
    stored,       \* history: the words inserted and not removed or cleared
    last,         \* history: the last call, its argument and its result
    pre,          \* history: the trie and the word set before the last call
    undo,         \* history: size and enumeration before an insert of a new
                  \* word, kept over the remove of that word that follows it
    file,         \* the bytes of the file bulk_insert_from_file is given
    stream,       \* bulk_insert_from_file: the std::ifstream file
    buffer_size,  \* bulk_insert_from_file: its parameter buffer_size
    carry,        \* bulk_insert_from_file: the local carry
    words_inserted, \* bulk_insert_from_file: the local words_inserted
    pc,           \* where bulk_insert_from_file stands
    ref,          \* history: the outcome of the first complete ingest of
                  \* file into an empty trie
    probe,        \* the word and the pattern handed to matches_pattern
    ignoreCase,   \* the TypeScript class Seshat: its option ignoreCase
    js            \* the JavaScript thread and the callbacks it has run

\* the variables of the trie and of its history
tvars == <<nodes, root, word_count_, stored, last, pre, undo>>

\* the variables of a running bulk_insert_from_file, and probe
xvars ==
    <<file, stream, buffer_size, carry, words_inserted, pc, ref, probe,
      char_is_signed, ignoreCase, js>>

\* the variables outside the core
evars == <<char_is_signed, ignoreCase, js>>

vars == <<nodes, root, word_count_, stored, last, pre, undo,
          file, stream, buffer_size, carry, words_inserted, pc, ref, probe,
          char_is_signed, ignoreCase, js>>

\* the RadixTrie object
T == [nodes |-> nodes, root |-> root, word_count_ |-> word_count_]

None == [word |-> <<>>, size |-> 0, all |-> <<>>]

Call(name, a, r) == [op |-> name, arg |-> a, ret |-> r]

Snapshot == pre' = [trie |-> T, stored |-> stored]

SetTrie(t) ==
    /\ nodes' = t.nodes
    /\ root' = t.root
    /\ word_count_' = t.word_count_

NoRun ==
    [valid |-> FALSE, buffer_size |-> 0, words |-> <<>>, size |-> 0,
     count |-> 0]

\* a new RadixTrie and its history
FreshTrie ==
    /\ nodes = NewTrie.nodes
    /\ root = NewTrie.root
    /\ word_count_ = NewTrie.word_count_
    /\ stored = {}
    /\ last = Call("new", <<>>, FALSE)
    /\ pre = [trie |-> NewTrie, stored |-> {}]
    /\ undo = None

\* the JavaScript thread is in no call and has run no callback
JsIdle == [call |-> <<>>, raced |-> FALSE, callbacks |-> <<>>]

\* a build of the addon, used through the core only
CoreOnly ==
    /\ char_is_signed \in BOOLEAN
    /\ ignoreCase = FALSE
    /\ js = JsIdle

\* no bulk_insert_from_file is running
NoIngest ==
    /\ stream = ClosedStream
    /\ buffer_size = 0
    /\ carry = <<>>
    /\ words_inserted = 0
    /\ ref = NoRun

Init ==
    /\ FreshTrie
    /\ NoIngest
    /\ CoreOnly
    /\ file = <<>>
    /\ pc = "idle"
    /\ probe = <<>>

Insert(w) ==
    LET t2 == insert(T, w)
    IN /\ SetTrie(t2)
       /\ stored' = IF w = <<>> THEN stored ELSE stored \cup {w}
       /\ last' = Call("insert", w, FALSE)
       /\ Snapshot
       /\ undo' = IF w # <<>> /\ w \notin stored
                  THEN [word |-> w, size |-> size(T),
                        all |-> words_with_prefix(T, <<>>)]
                  ELSE None
       /\ UNCHANGED xvars

Remove(w) ==
    LET r == remove(T, w)
    IN /\ SetTrie(r.trie)
       /\ stored' = stored \ {w}
       /\ last' = Call("remove", w, r.ret)
       /\ Snapshot
       /\ undo' = IF last.op = "insert" /\ undo # None /\ undo.word = w
                  THEN undo ELSE None
       /\ UNCHANGED xvars

Clear ==
    /\ SetTrie(clear(T))
    /\ stored' = {}
    /\ last' = Call("clear", <<>>, FALSE)
    /\ Snapshot
    /\ undo' = None
    /\ UNCHANGED xvars

\* mutant: a query that counts itself in word_count_
Query_counting(name, a, r) ==
    /\ last' = Call(name, a, r)
    /\ Snapshot
    /\ undo' = None
    /\ word_count_' = word_count_ + 1
    /\ UNCHANGED <<nodes, root, stored>>
    /\ UNCHANGED xvars

\* a const member function is called: the result is recorded
Query(name, a, r) ==
    /\ last' = Call(name, a, r)
    /\ Snapshot
    /\ undo' = None
    /\ UNCHANGED <<nodes, root, word_count_, stored>>
    /\ UNCHANGED xvars

Search(w) == Query("search", w, search(T, w))

StartsWith(p) == Query("starts_with", p, starts_with(T, p))

WordsWithPrefix(p) == Query("words_with_prefix", p, words_with_prefix(T, p))

Size == Query("size", <<>>, size(T))

Empty == Query("empty", <<>>, empty(T))

Next ==
    \/ \E w \in Strings : Insert(w)
    \/ \E w \in Strings : Remove(w)
    \/ Clear
    \/ \E w \in Strings : Search(w)
    \/ \E p \in Strings : StartsWith(p)
    \/ \E p \in Strings : WordsWithPrefix(p)
    \/ Size
    \/ Empty

Spec == Init /\ [][Next]_vars

\* ---------------------------------------- pattern search and statistics
PatternSearch(pat) == Query("pattern_search", pat, pattern_search(T, pat))

MemoryStats == Query("memory_stats", <<>>, get_memory_stats(T))

\* get_height_stats(): the library walks frequency in one of its orders
HeightStats ==
    \E order \in IterationOrders(
                    calculate_heights_recursive(T, root, 0, <<>>)) :
        Query("height_stats", <<>>, get_height_stats(T, order))

\* get_word_metrics(): likewise
WordMetrics ==
    \E order \in IterationOrders(
                    collect_word_lengths_recursive(T, root, 0, <<>>)) :
        Query("word_metrics", <<>>, get_word_metrics(T, order))

NextAnalytics ==
    \/ \E w \in Strings : Insert(w)
    \/ \E w \in Strings : Remove(w)
    \/ Clear
    \/ \E pat \in Patterns : PatternSearch(pat)
    \/ MemoryStats
    \/ HeightStats
    \/ WordMetrics

SpecAnalytics == Init /\ [][NextAnalytics]_vars

\* ------------------------------------------- the TypeScript class Seshat
\* the words handed to Seshat.insert: "", " ", "\t ", "a", "A", " a", "a b"
WrapperWords ==
    {<<>>, <<32>>, <<9, 32>>, <<97>>, <<65>>, <<32, 97>>, <<97, 32, 98>>}

InitWrapper ==
    /\ FreshTrie
    /\ NoIngest
    /\ file = <<>>
    /\ pc = "idle"
    /\ probe = <<>>
    /\ char_is_signed \in BOOLEAN
    /\ ignoreCase \in BOOLEAN
    /\ js = JsIdle

\* trie.insert(word) in TypeScript
TsInsert(word) ==
    LET r == Seshat_insert(T, ignoreCase, word)
    IN /\ SetTrie(r.trie)
       /\ stored' = IF r.threw THEN stored ELSE stored \cup {r.word}
       /\ last' = Call("Seshat.insert", word, r.threw)
       /\ Snapshot
       /\ undo' = None
       /\ UNCHANGED xvars

NextWrapper ==
    \/ \E word \in WrapperWords : TsInsert(word)
    \/ Insert(<<>>)
    \/ Clear
    \/ \E w \in WrapperWords : Search(w)
    \/ Size

SpecWrapper == InitWrapper /\ [][NextWrapper]_vars

\* ------------------------------------------------- the README example
\* "hello", "world", "help"
ReadmeWords ==
    {<<104, 101, 108, 108, 111>>, <<119, 111, 114, 108, 100>>,
     <<104, 101, 108, 112>>}

\* the prefixes asked for: "he", "", "hel", "w"
ReadmePrefixes == {<<104, 101>>, <<>>, <<104, 101, 108>>, <<119>>}

NextReadme ==
    \/ \E w \in ReadmeWords : Insert(w)
    \/ \E p \in ReadmePrefixes : WordsWithPrefix(p)
    \/ \E p \in ReadmePrefixes : StartsWith(p)
    \/ \E w \in ReadmeWords : Search(w)

SpecReadme == Init /\ [][NextReadme]_vars

\* ------------------------------------------------- words of any bytes
\* "a", "\xC8", "a\xC8", "aa", "\xC8a"
ByteWords == {<<97>>, <<200>>, <<97, 200>>, <<97, 97>>, <<200, 97>>}

NextBytes ==
    \/ \E w \in ByteWords : Insert(w)
    \/ \E w \in ByteWords : Remove(w)
    \/ \E p \in {<<>>, <<97>>, <<200>>} : WordsWithPrefix(p)

SpecBytes == Init /\ [][NextBytes]_vars

\* -------------------------------------------------- insertFromFileAsync
\* if (buffer_size < 1024) buffer_size = 1024;
MinBufferSize == 1024

clamp_buffer_size(b) == IF b < MinBufferSize THEN MinBufferSize ELSE b

\* the file: "a\nab"; the buffer sizes asked for
AsyncFile == <<97, 10, 97, 98>>
AsyncBufferSizes == {2, 2048}

\* the calls the JavaScript thread makes on the same trie meanwhile:
\* insert("b") and search("a")
MainCalls == {<<"insert", <<98>>>>, <<"search", <<97>>>>}

\* What a data race on the trie can end in: both accesses take effect as
\* if one had followed the other, the write of one is lost, or the
\* process dies.
RaceOutcomes == {"applied", "lost", "crash"}

InitAsync ==
    /\ FreshTrie
    /\ NoIngest
    /\ file = AsyncFile
    /\ pc = "ready"
    /\ probe = <<>>
    /\ char_is_signed \in BOOLEAN
    /\ ignoreCase = FALSE
    /\ js = JsIdle

\* Seshat::InsertFromFileAsync with arguments that pass the validation:
\* the worker is queued and the call returns
AsyncCall(b) ==
    /\ pc = "ready"
    /\ js.call = <<>>
    /\ pc' = "queued"
    /\ buffer_size' = clamp_buffer_size(b)
    /\ last' = Call("insertFromFileAsync", b, FALSE)
    /\ Snapshot
    /\ UNCHANGED <<nodes, root, word_count_, stored, undo, file, stream,
                   carry, words_inserted, ref, probe>>
    /\ UNCHANGED evars

\* InsertFromFileWorker::Execute on the worker thread, up to the loop of
\* bulk_insert_from_file; what it throws is caught and kept (SetError)
ExecuteOpen(can_open) ==
    LET f == open_stream(can_open)
    IN /\ pc = "queued"
       /\ stream' = f
       /\ carry' = <<>>
       /\ words_inserted' = 0
       /\ pc' = IF open_check_throws(f) THEN "failed" ELSE "loop"
       /\ UNCHANGED <<nodes, root, word_count_, stored, last, pre, undo,
                      file, buffer_size, ref, probe>>
       /\ UNCHANGED evars

\* A step of the worker that inserts while the JavaScript thread is inside
\* a call on the same trie is a data race: nothing orders the two.
Racing(fed) == js.call # <<>> /\ fed # <<>>

\* the worker's side of the outcome of a step that has fed the words fed
\* and would leave the trie t2
WorkerStep(t2, fed, outcome, next_pc) ==
    /\ outcome \in IF Racing(fed) THEN RaceOutcomes ELSE {"applied"}
    /\ SetTrie(IF outcome = "applied" THEN t2 ELSE T)
    /\ pc' = IF outcome = "crash" THEN "crashed" ELSE next_pc
    /\ stored' = stored \cup Range(fed)
    /\ js' = [js EXCEPT !.raced = @ \/ Racing(fed)]
    /\ UNCHANGED <<last, pre, undo, file, buffer_size, ref, probe,
                   char_is_signed, ignoreCase>>

\* one iteration of the chunk loop on the worker thread
ExecuteRead(io_error, outcome) ==
    /\ pc = "loop"
    /\ \E r \in {ingest_iteration([trie |-> T, carry |-> carry,
                                    words_inserted |-> words_inserted,
                                    fed |-> <<>>],
                                   stream, file, buffer_size, io_error)} :
          /\ carry' = r.st.carry
          /\ words_inserted' = r.st.words_inserted
          /\ stream' = r.stream
          /\ WorkerStep(r.st.trie, r.st.fed, outcome,
                        IF r.more THEN "loop" ELSE "tail")

\* the rest of bulk_insert_from_file and of Execute: wordsInserted_ is set
ExecuteTail(outcome) ==
    /\ pc = "tail"
    /\ \E st \in {ingest_tail([trie |-> T, carry |-> carry,
                               words_inserted |-> words_inserted,
                               fed |-> <<>>])} :
          /\ carry' = st.carry
          /\ words_inserted' = st.words_inserted
          /\ stream' = [stream EXCEPT !.is_open = FALSE]
          /\ WorkerStep(st.trie, st.fed, outcome, "executed")

\* OnOK or OnError on the JavaScript thread, once it is in no call
Callback ==
    /\ pc \in {"executed", "failed"}
    /\ js.call = <<>>
    /\ js' = [js EXCEPT !.callbacks = Append(@,
                 IF pc = "executed"
                 THEN [err |-> FALSE, has_count |-> TRUE,
                       count |-> words_inserted]
                 ELSE [err |-> TRUE, has_count |-> FALSE, count |-> 0])]
    /\ pc' = "called_back"
    /\ UNCHANGED tvars
    /\ UNCHANGED <<file, stream, buffer_size, carry, words_inserted, ref,
                   probe, char_is_signed, ignoreCase>>

\* the JavaScript thread enters Seshat::Insert or Seshat::Search
MainBegin(c) ==
    /\ pc # "crashed"
    /\ js.call = <<>>
    /\ js' = [js EXCEPT !.call = c, !.raced = FALSE]
    /\ UNCHANGED tvars
    /\ UNCHANGED <<file, stream, buffer_size, carry, words_inserted, pc,
                   ref, probe, char_is_signed, ignoreCase>>

\* and leaves it
MainEnd(outcome) ==
    LET op == js.call[1]
        w == js.call[2]
    IN /\ pc # "crashed"
       /\ js.call # <<>>
       /\ outcome \in IF js.raced THEN RaceOutcomes ELSE {"applied"}
       /\ js' = [js EXCEPT !.call = <<>>, !.raced = FALSE]
       /\ pc' = IF outcome = "crash" THEN "crashed" ELSE pc
       /\ IF op = "insert"
          THEN /\ SetTrie(IF outcome = "applied" THEN insert(T, w) ELSE T)
               /\ stored' = stored \cup {w}
               /\ last' = Call("insert", w, FALSE)
          ELSE /\ UNCHANGED <<nodes, root, word_count_, stored>>
               /\ last' = Call("search", w,
                               IF outcome = "applied" THEN search(T, w)
                               ELSE ~search(T, w))
       /\ UNCHANGED <<pre, undo, file, stream, buffer_size, carry,
                      words_inserted, ref, probe, char_is_signed,
                      ignoreCase>>

\* the worker thread
Worker ==
    \/ \E can_open \in BOOLEAN : ExecuteOpen(can_open)
    \/ \E io_error \in BOOLEAN, outcome \in RaceOutcomes :
           ExecuteRead(io_error, outcome)
    \/ \E outcome \in RaceOutcomes : ExecuteTail(outcome)

MainReturns == \E outcome \in RaceOutcomes : MainEnd(outcome)

NextAsync ==
    \/ \E b \in AsyncBufferSizes : AsyncCall(b)
    \/ Worker
    \/ Callback
    \/ \E c \in MainCalls : MainBegin(c)
    \/ MainReturns

\* The thread pool runs a queued worker and a call returns; the event loop
\* runs the callback of a finished worker when the JavaScript thread is in
\* no call, which it is again and again.
SpecAsync ==
    /\ InitAsync
    /\ [][NextAsync]_vars
    /\ WF_vars(Worker)
    /\ SF_vars(Callback)
    /\ WF_vars(MainReturns)

\* ------------------------------------------------------ matches_pattern
\* longest word and longest pattern handed to matches_pattern
MaxWordLen == 3
MaxPatLen == 3

\* words over 'a', 'b'; patterns over 'a', 'b', '?', '*'
MatchWords == UNION {[1..k -> {97, 98}] : k \in 0..MaxWordLen}
MatchPatterns ==
    UNION {[1..k -> {97, 98, QuestionMark, Star}] : k \in 0..MaxPatLen}

InitMatch ==
    /\ FreshTrie
    /\ NoIngest
    /\ CoreOnly
    /\ file = <<>>
    /\ pc = "idle"
    /\ probe \in MatchWords \X MatchPatterns

Matches ==
    /\ last.op = "new"
    /\ last' = Call("matches_pattern", probe,
                    matches_pattern(probe[1], probe[2]))
    /\ UNCHANGED <<nodes, root, word_count_, stored, pre, undo>>
    /\ UNCHANGED xvars

NextMatch == Matches

SpecMatch == InitMatch /\ [][NextMatch]_vars

\* ------------------------------------------------ bulk_insert_from_file
\* longest file and largest buffer_size
MaxFileLen == 4
MaxBuf == 3

\* the bytes of a file: 'a', ' ', '\n', '\r'
FileBytes == {97, 32, 10, 13}
Files == UNION {[1..k -> FileBytes] : k \in 0..MaxFileLen}

\* the word a trie may hold before the ingest: "a"
Seeds == {<<97>>}

InitIngest ==
    /\ FreshTrie
    /\ NoIngest
    /\ CoreOnly
    /\ file \in Files
    /\ pc = "ready"
    /\ probe = <<>>

\* the trie is given a word before the ingest
Seed(w) ==
    /\ pc = "ready"
    /\ last.op = "new"
    /\ Insert(w)

\* bulk_insert_from_file(path, B) up to the loop: the stream is opened and
\* the buffer allocated; an unopened stream makes the call throw. can_open
\* tells whether path names a file that can be opened.
IngestOpen(B, can_open) ==
    LET f == open_stream(can_open)
    IN /\ pc = "ready"
       /\ buffer_size' = B
       /\ carry' = <<>>
       /\ words_inserted' = 0
       /\ Snapshot
       /\ IF open_check_throws(f)
          THEN /\ pc' = "threw"
               /\ stream' = ClosedStream
               /\ last' = Call("bulk_insert_from_file",
                               [buffer_size |-> B, can_open |-> can_open],
                               [status |-> "error", count |-> 0])
          ELSE /\ pc' = "loop"
               /\ stream' = f
               /\ last' = Call("bulk_insert_from_file",
                               [buffer_size |-> B, can_open |-> can_open],
                               [status |-> "running", count |-> 0])
       /\ UNCHANGED <<nodes, root, word_count_, stored, undo, file, ref,
                      probe>>
       /\ UNCHANGED evars

\* one iteration of the chunk loop; the read may fail (io_error)
IngestRead(io_error) ==
    /\ pc = "loop"
    /\ \E r \in {ingest_iteration([trie |-> T, carry |-> carry,
                                    words_inserted |-> words_inserted,
                                    fed |-> <<>>],
                                   stream, file, buffer_size, io_error)} :
          /\ SetTrie(r.st.trie)
          /\ carry' = r.st.carry
          /\ words_inserted' = r.st.words_inserted
          /\ stored' = stored \cup Range(r.st.fed)
          /\ stream' = r.stream
          /\ pc' = IF r.more THEN "loop" ELSE "tail"
          /\ UNCHANGED <<last, pre, undo, file, buffer_size, ref, probe>>
          /\ UNCHANGED evars

\* after the loop: the last line, file.close(), return words_inserted
IngestFinish ==
    /\ pc = "tail"
    /\ \E st \in {ingest_tail([trie |-> T, carry |-> carry,
                               words_inserted |-> words_inserted,
                               fed |-> <<>>])} :
          /\ SetTrie(st.trie)
          /\ carry' = st.carry
          /\ words_inserted' = st.words_inserted
          /\ stored' = stored \cup Range(st.fed)
          /\ stream' = [stream EXCEPT !.is_open = FALSE]
          /\ pc' = "done"
          /\ last' = Call("bulk_insert_from_file", last.arg,
                          [status |-> "ok", count |-> st.words_inserted])
          /\ ref' = IF ~ref.valid /\ pre.stored = {} /\ ~stream.badbit
                    THEN [valid |-> TRUE,
                          buffer_size |-> buffer_size,
                          words |-> words_with_prefix(st.trie, <<>>),
                          size |-> size(st.trie),
                          count |-> st.words_inserted]
                    ELSE ref
          /\ UNCHANGED <<pre, undo, file, buffer_size, probe>>
          /\ UNCHANGED evars

\* another RadixTrie is constructed for the next ingest of the same file
Construct ==
    /\ pc \in {"done", "threw"}
    /\ SetTrie(NewTrie)
    /\ stored' = {}
    /\ last' = Call("new", <<>>, FALSE)
    /\ pre' = [trie |-> NewTrie, stored |-> {}]
    /\ undo' = None
    /\ stream' = ClosedStream
    /\ buffer_size' = 0
    /\ carry' = <<>>
    /\ words_inserted' = 0
    /\ pc' = "ready"
    /\ UNCHANGED <<file, ref, probe>>
    /\ UNCHANGED evars

NextIngest ==
    \/ \E w \in Seeds : Seed(w)
    \/ \E B \in 1..MaxBuf, can_open \in BOOLEAN : IngestOpen(B, can_open)
    \/ \E io_error \in BOOLEAN : IngestRead(io_error)
    \/ IngestFinish
    \/ Construct

SpecIngest == InitIngest /\ [][NextIngest]_vars

\* ------------------------------------------- bulk ingest, to its return
MaxShortLen == 3

\* the files of up to MaxShortLen bytes over 'a' and '\n'
ShortFiles == UNION {[1..k -> {97, 10}] : k \in 0..MaxShortLen}

InitShort ==
    /\ FreshTrie
    /\ NoIngest
    /\ CoreOnly
    /\ file \in ShortFiles
    /\ pc = "ready"
    /\ probe = <<>>

\* the thread that called bulk_insert_from_file goes on running: the next
\* iteration of the loop is executed, and so is the code after the loop
Running ==
    \/ IngestRead(TRUE)
    \/ IngestRead(FALSE)
    \/ IngestFinish

SpecIngestFair ==
    /\ InitShort
    /\ [][NextIngest]_vars
    /\ WF_vars(Running)

\* --------------------------------------------- every operation together
\* the file of the bulk ingest: "b\nab\n"
FrameFile == <<98, 10, 97, 98, 10>>

InitAll ==
    /\ FreshTrie
    /\ NoIngest
    /\ CoreOnly
    /\ file = FrameFile
    /\ pc = "ready"
    /\ probe = <<>>

\* The calls are made by one thread, one after the other; the bulk ingest
\* is the last call of a behaviour.
Returned == pc = "ready"

NextAll ==
    \/ Returned /\ \E w \in Strings : Insert(w)
    \/ Returned /\ \E w \in Strings : Remove(w)
    \/ Returned /\ Clear
    \/ Returned /\ \E w \in Strings : Search(w)
    \/ Returned /\ \E p \in Strings : StartsWith(p)
    \/ Returned /\ \E p \in Strings : WordsWithPrefix(p)
    \/ Returned /\ Size
    \/ Returned /\ Empty
    \/ Returned /\ \E pat \in Patterns : PatternSearch(pat)
    \/ Returned /\ MemoryStats
    \/ Returned /\ HeightStats
    \/ Returned /\ WordMetrics
    \/ \E can_open \in BOOLEAN : IngestOpen(2, can_open)
    \/ \E io_error \in BOOLEAN : IngestRead(io_error)
    \/ IngestFinish

SpecAll == InitAll /\ [][NextAll]_vars

\* ------------------------------------- the TypeScript class, ignoreCase
\* "a", "A", "aB", "Ab", " "
CaseWords == {<<97>>, <<65>>, <<97, 66>>, <<65, 98>>, <<32>>}

\* the arrays handed to insertBatch
CaseBatches ==
    {<< <<65, 98>> >>, << <<32>>, <<97, 66>> >>, << <<65>>, <<97>> >>}

\* the files handed to insertFromFile: "A", "b\nAb"
CaseFiles == {<<65>>, <<98, 10, 65, 98>>}

InitCase ==
    /\ FreshTrie
    /\ NoIngest
    /\ file \in CaseFiles
    /\ pc = "ready"
    /\ probe = <<>>
    /\ char_is_signed \in BOOLEAN
    /\ ignoreCase \in BOOLEAN
    /\ js = JsIdle

\* the thread is in no call of insertFromFile
Idle == pc \in {"ready", "done", "threw"}

\* trie.insertBatch(words) in TypeScript
TsInsertBatch(words) ==
    LET r == Seshat_insertBatch(T, ignoreCase, words)
    IN /\ SetTrie(r.trie)
       /\ stored' = stored \cup Range(normalizedWords(ignoreCase, words))
       /\ last' = Call("Seshat.insertBatch", words, r.count)
       /\ Snapshot
       /\ undo' = None
       /\ UNCHANGED xvars

\* trie.search(word) in TypeScript
TsSearch(word) ==
    Query("Seshat.search", word, Seshat_search(T, ignoreCase, word))

\* trie.insertFromFile(path, bufferSize) in TypeScript, through
\* Seshat::InsertFromFile of the addon, up to the loop of the ingest
TsInsertFromFile(bufferSize, can_open) ==
    IngestOpen(clamp_buffer_size(bufferSize), can_open)

\* Seshat.fromJSON(trie.toJSON()) in TypeScript, and what the instance
\* it returns holds
TsRoundTrip ==
    LET r == Seshat_fromJSON(Seshat_toJSON(T, ignoreCase))
    IN Query("Seshat.fromJSON", <<>>,
             [threw |-> r.threw,
              ignoreCase |-> r.ignoreCase,
              size |-> size(r.trie),
              words |-> Seshat_getWordsWithPrefix(r.trie, r.ignoreCase,
                                                  <<>>)])

NextCase ==
    \/ Idle /\ \E word \in CaseWords : TsInsert(word)
    \/ Idle /\ \E words \in CaseBatches : TsInsertBatch(words)
    \/ Idle /\ \E word \in CaseWords : TsSearch(word)
    \/ Idle /\ TsRoundTrip
    \/ \E can_open \in BOOLEAN : TsInsertFromFile(1024, can_open)
    \/ \E io_error \in BOOLEAN : IngestRead(io_error)
    \/ IngestFinish

SpecCase == InitCase /\ [][NextCase]_vars

\* ------------------------------------------------------------ properties
IsPrefix(p, w) == Len(p) <= Len(w) /\ SubSeq(w, 1, Len(p)) = p

\* the nodes reachable from the root, and the non-root ones among them
Reachable(t) == Owned(t.nodes, t.root)

NonRoot(t) == Reachable(t) \ {t.root}

\* C1: after any sequence of insert, remove and clear, search(w) is true
\* exactly when w is in the word set (inserted and not removed or cleared
\* since), so it is false for unstored prefixes and extensions of stored words.
C1_SearchIsMembership ==
    /\ \A w \in Strings : search(T, w) = (w \in stored)
    /\ last.op = "search" => last.ret = (last.arg \in stored)

\* search has just returned false for a word whose node exists and which is
\* a proper prefix of a stored word
C1_Witness ==
    /\ last.op = "search"
    /\ last.ret = FALSE
    /\ find_node(T, last.arg) # NULL
    /\ \E w \in stored : IsPrefix(last.arg, w) /\ w # last.arg

\* C2: after every operation size() is the number of distinct stored words,
\* which is the number of nodes with is_end set, and empty() is true exactly
\* when that number is 0.
C2_SizeIsWordCount ==
    /\ size(T) = Cardinality(stored)
    /\ size(T) = Cardinality({a \in Reachable(T) : nodes[a].is_end})
    /\ empty(T) = (Cardinality(stored) = 0)
    /\ last.op = "size" => last.ret = Cardinality(stored)
    /\ last.op = "empty" => last.ret = (stored = {})

\* size() has just returned 2 for a trie with a node that is not terminal
C2_Witness ==
    /\ last.op = "size"
    /\ last.ret = 2
    /\ \E a \in NonRoot(T) : ~nodes[a].is_end

\* C3: inserting a word that is already stored changes nothing observable:
\* size, search(v) for every v and words_with_prefix(p) for every p.
C3_DuplicateInsertIsNoOp ==
    (last.op = "insert" /\ last.arg \in pre.stored) =>
        /\ size(T) = size(pre.trie)
        /\ \A v \in Strings : search(T, v) = search(pre.trie, v)
        /\ \A p \in Strings :
              words_with_prefix(T, p) = words_with_prefix(pre.trie, p)

\* a stored word has just been inserted again, next to other stored words
C3_Witness ==
    /\ last.op = "insert"
    /\ last.arg \in pre.stored
    /\ Cardinality(stored) >= 2

\* C4: remove(w) returns true exactly when w is stored; after a true return
\* search(w) is false, size() is one less, and every other stored word is
\* still found by search and still enumerated by words_with_prefix.
C4_RemoveStored ==
    last.op = "remove" =>
        /\ last.ret = (last.arg \in pre.stored)
        /\ last.ret =>
              /\ ~search(T, last.arg)
              /\ size(T) = size(pre.trie) - 1
              /\ \A v \in pre.stored \ {last.arg} :
                    /\ search(T, v)
                    /\ \A p \in Strings :
                          IsPrefix(p, v) => v \in Range(words_with_prefix(T, p))

\* remove has just returned true for a word whose node has children, with
\* other words still stored
C4_Witness ==
    /\ last.op = "remove"
    /\ last.ret = TRUE
    /\ stored # {}
    /\ nodes[find_node_loop(T, root, 0, last.arg)].children # <<>>

\* C5: remove of a word that is not stored (absent, empty, an unstored proper
\* prefix of a stored word, already removed) returns false and leaves size()
\* and the set of stored words unchanged.
C5_RemoveAbsent ==
    (last.op = "remove" /\ last.arg \notin pre.stored) =>
        /\ last.ret = FALSE
        /\ size(T) = size(pre.trie)
        /\ words_with_prefix(T, <<>>) = words_with_prefix(pre.trie, <<>>)
        /\ \A v \in Strings : search(T, v) = search(pre.trie, v)

\* remove has just returned false for a word that was removed before and is
\* a proper prefix of a stored word
C5_Witness ==
    /\ last.op = "remove"
    /\ last.arg \notin pre.stored
    /\ last.arg # <<>>
    /\ find_node(T, last.arg) # NULL
    /\ \E w \in stored : IsPrefix(last.arg, w)

\* C6: for a trie that does not contain w, insert(w) followed by remove(w)
\* gives the size() and the words_with_prefix("") sequence it had before.
C6_InsertRemoveInverse ==
    (last.op = "remove" /\ undo # None) =>
        /\ size(T) = undo.size
        /\ words_with_prefix(T, <<>>) = undo.all

\* a word whose insert split an edge of a non-empty trie has just been removed
C6_Witness ==
    /\ last.op = "remove"
    /\ undo # None
    /\ undo.size >= 1
    /\ \E a \in NonRoot(T) : ~nodes[a].is_end /\ Len(nodes[a].children) = 2

\* C7: words_with_prefix(p) returns exactly the stored words that begin with
\* p, each once, whether p ends on a node or inside an edge label; for the
\* empty prefix it returns every stored word.
C7_PrefixEnumeration ==
    /\ \A p \in Strings :
          LET r == words_with_prefix(T, p)
          IN /\ Range(r) = {w \in stored : IsPrefix(p, w)}
             /\ Len(r) = Cardinality(Range(r))
    /\ last.op = "words_with_prefix" =>
          Range(last.ret) = {w \in stored : IsPrefix(last.arg, w)}

\* words_with_prefix has just returned a word for a prefix that ends inside
\* an edge label
C7_Witness ==
    /\ last.op = "words_with_prefix"
    /\ last.arg # <<>>
    /\ find_node(T, last.arg) = NULL
    /\ last.ret # <<>>

\* C8: starts_with(p) returns true exactly when at least one stored word
\* begins with p; for the empty prefix, exactly when the trie is non-empty.
C8_StartsWithIsSomeWord ==
    last.op = "starts_with" =>
        last.ret = (\E w \in stored : IsPrefix(last.arg, w))

\* C9: there is no non-root node that is non-terminal and has exactly one
\* child.
C9_Compressed ==
    \A a \in NonRoot(T) : ~(~nodes[a].is_end /\ Len(nodes[a].children) = 1)

\* C10: every leaf (childless non-root node) has is_end = true.
C10_LeavesAreTerminal ==
    \A a \in NonRoot(T) : nodes[a].children = <<>> => nodes[a].is_end

\* C11: within every node the child pair-keys are pairwise distinct and
\* strictly ascending, so no two children of a node have keys that start
\* with the same byte.
C11_ChildrenSorted ==
    \A a \in Reachable(T) :
        LET v == nodes[a].children
        IN \A i, j \in 1..Len(v) :
              i < j =>
                 /\ CharLess(v[i].first, v[j].first)
                 /\ nodes[v[i].second].key # <<>>
                 /\ nodes[v[j].second].key # <<>>
                 /\ nodes[v[i].second].key[1] # nodes[v[j].second].key[1]

\* an insert has just put a new child in front of the root's only child
C11_Witness ==
    /\ last.op = "insert"
    /\ Len(pre.trie.nodes[pre.trie.root].children) = 1
    /\ Len(nodes[root].children) = 2
    /\ nodes[root].children[2] = pre.trie.nodes[pre.trie.root].children[1]

\* C12: every non-root node has a non-empty key whose first byte equals the
\* node's parent_char and the pair-key under which its parent holds it; the
\* root's key is empty.
C12_KeyMatchesParentChar ==
    /\ nodes[root].key = <<>>
    /\ \A a \in Reachable(T) :
          \A i \in 1..Len(nodes[a].children) :
              LET pr == nodes[a].children[i]
                  c == nodes[pr.second]
              IN /\ c.key # <<>>
                 /\ c.key[1] = c.parent_char
                 /\ c.key[1] = pr.first

\* an insert has just split an edge: the trie has two more nodes, an
\* intermediate one and the new leaf, next to the demoted child
C12_Witness ==
    /\ last.op = "insert"
    /\ Cardinality(Reachable(T)) = Cardinality(Reachable(pre.trie)) + 2

\* ------------------------------------------------------ pattern search
\* C18: pattern_search(pat) holds exactly the words of
\* words_with_prefix("") that matches_pattern accepts, in strictly
\* ascending byte order; the empty pattern gives nothing and "*" gives
\* every stored word.
C18_PatternSearch ==
    last.op = "pattern_search" =>
        LET all == words_with_prefix(T, <<>>)
            ret == last.ret
        IN /\ Range(ret) =
                 {w \in Range(all) : matches_pattern(w, last.arg)}
           /\ \A i, j \in 1..Len(ret) : i < j => StringLess(ret[i], ret[j])
           /\ last.arg = <<>> => ret = <<>>
           /\ last.arg = <<Star>> =>
                 Range(ret) = stored /\ Len(ret) = Cardinality(stored)

\* "a*" finds two words or more and leaves a stored word out
C18_Witness ==
    /\ last.op = "pattern_search"
    /\ last.arg = <<97, Star>>
    /\ Len(last.ret) >= 2
    /\ Cardinality(stored) > Len(last.ret)

\* The glob relation: a literal matches itself, '?' any one byte, '*' any
\* sequence of bytes.
RECURSIVE GlobMatch(_, _)
GlobMatch(w, p) ==
    IF p = <<>> THEN w = <<>>
    ELSE IF Head(p) = 42
         THEN GlobMatch(w, Tail(p)) \/ (w # <<>> /\ GlobMatch(Tail(w), p))
    ELSE /\ w # <<>>
         /\ Head(p) = 63 \/ Head(p) = Head(w)
         /\ GlobMatch(Tail(w), Tail(p))

\* C19: matches_pattern(word, pattern) is the glob relation.
C19_MatchesGlob ==
    last.op = "matches_pattern" =>
        last.ret = GlobMatch(last.arg[1], last.arg[2])

\* "a" against "**a": leading, consecutive '*', a pattern longer than the
\* word
C19_Witness ==
    /\ last.op = "matches_pattern"
    /\ last.arg = << <<97>>, <<42, 42, 97>> >>
    /\ last.ret

\* ------------------------------------------------------------ statistics
RECURSIVE KeyBytes(_, _)
KeyBytes(t, S) ==
    IF S = {} THEN 0
    ELSE LET a == CHOOSE x \in S : TRUE
         IN Len(t.nodes[a].key) + KeyBytes(t, S \ {a})

\* C20: node_count is the number of nodes reachable from the root and
\* string_bytes the sum of the lengths of their keys.
C20_MemoryStats ==
    last.op = "memory_stats" =>
        /\ last.ret.node_count = Cardinality(Reachable(T))
        /\ last.ret.string_bytes = KeyBytes(T, Reachable(T))

\* ------------------------------------------------ bulk ingest, reference
\* The records of a byte sequence, defined without chunks: the maximal
\* intervals free of '\n' and '\r' that hold a byte that is not whitespace.
RefPieces(f) ==
    {iv \in (1..Len(f)) \X (1..Len(f)) :
        /\ iv[1] <= iv[2]
        /\ \A k \in iv[1]..iv[2] : f[k] \notin {10, 13}
        /\ iv[1] = 1 \/ f[iv[1] - 1] \in {10, 13}
        /\ iv[2] = Len(f) \/ f[iv[2] + 1] \in {10, 13}}

RefInk(f, iv) == {k \in iv[1]..iv[2] : f[k] \notin {9, 10, 11, 12, 13, 32}}

RefRecords(f) == {iv \in RefPieces(f) : RefInk(f, iv) # {}}

RefWord(f, iv) ==
    LET ink == RefInk(f, iv)
        lo == CHOOSE k \in ink : \A m \in ink : k <= m
        hi == CHOOSE k \in ink : \A m \in ink : m <= k
    IN SubSeq(f, lo, hi)

RefWords(f) == {RefWord(f, iv) : iv \in RefRecords(f)}

\* a bulk ingest has returned and none of its reads failed
IngestDone ==
    /\ pc = "done"
    /\ last.op = "bulk_insert_from_file"
    /\ ~stream.badbit

\* C13: whatever the buffer size, the ingest of a file into an empty trie
\* ends with the same words, the same size() and the same returned count
\* as the first ingest of that file into an empty trie did.
C13_BufferSizeIrrelevant ==
    (IngestDone /\ pre.stored = {} /\ ref.valid) =>
        /\ words_with_prefix(T, <<>>) = ref.words
        /\ size(T) = ref.size
        /\ last.ret.count = ref.count

\* "aa\na" read one byte at a time after it was read three bytes at a time
C13_Witness ==
    /\ IngestDone /\ pre.stored = {} /\ ref.valid
    /\ file = <<97, 97, 10, 97>>
    /\ buffer_size = 1 /\ ref.buffer_size = 3
    /\ ref.count = 2 /\ ref.size = 2

\* C14: after a bulk ingest the trie holds what it held before and exactly
\* the records of the file: the pieces between runs of '\n' and '\r',
\* without their leading and trailing whitespace, the empty ones left out.
C14_StoresTheRecords ==
    IngestDone =>
        /\ Range(words_with_prefix(T, <<>>)) =
               pre.stored \cup RefWords(file)
        /\ \A w \in RefWords(file) : search(T, w)

\* " a a": leading whitespace, inner whitespace, no final delimiter
C14_Witness ==
    /\ IngestDone
    /\ file = <<32, 97, 32, 97>>
    /\ words_with_prefix(T, <<>>) = << <<97, 32, 97>> >>

\* C15: the count returned is the number of records of the file, repeats
\* counted; size() grows by at most that, and by exactly that iff the
\* records are pairwise distinct and none was stored before.
C15_CountsEveryRecord ==
    IngestDone =>
        LET growth == size(T) - size(pre.trie)
            n == Cardinality(RefRecords(file))
        IN /\ last.ret.count = n
           /\ growth <= last.ret.count
           /\ (growth = last.ret.count) <=>
                  /\ Cardinality(RefWords(file)) = n
                  /\ RefWords(file) \cap pre.stored = {}

\* "a\na" into a trie that holds "a": count 2, growth 0
C15_Witness ==
    /\ IngestDone
    /\ pre.stored = {<<97>>}
    /\ last.ret.count = 2
    /\ size(T) = size(pre.trie)

\* C16: when the file cannot be opened the call ends with an error and
\* the words and size() are those before the call.
C16_OpenFailure ==
    (last.op = "bulk_insert_from_file" /\ ~last.arg.can_open) =>
        /\ last.ret.status = "error"
        /\ pc = "threw"
        /\ words_with_prefix(T, <<>>) = words_with_prefix(pre.trie, <<>>)
        /\ size(T) = size(pre.trie)
        /\ stored = pre.stored

C16_Witness ==
    /\ last.op = "bulk_insert_from_file" /\ ~last.arg.can_open
    /\ pc = "threw"
    /\ pre.stored = {<<97>>}

\* C17: when a read fails after the file was opened, the call ends with
\* an error instead of a count, and the records inserted before the
\* failure are still stored.
C17_ReadFailure ==
    (last.op = "bulk_insert_from_file" /\ pc = "done" /\ stream.badbit) =>
        /\ last.ret.status = "error"
        /\ pre.stored \subseteq Range(words_with_prefix(T, <<>>))

\* --------------------------------------------- height and word statistics
\* the number of edges from the root down to node a, by the parent pointers
RECURSIVE ParentDepth(_, _)
ParentDepth(t, a) ==
    IF t.nodes[a].parent = NULL THEN 0
    ELSE 1 + ParentDepth(t, t.nodes[a].parent)

\* how often x occurs in the sequence v
Occurrences(v, x) == Cardinality({i \in 1..Len(v) : v[i] = x})

\* the stored words whose terminal node is d edges below the root
WordsAtDepth(d) == {w \in stored : ParentDepth(T, find_node(T, w)) = d}

\* the stored words of k bytes
WordsOfLength(k) == {w \in stored : Len(w) = k}

RECURSIVE SumOfLengths(_)
SumOfLengths(S) ==
    IF S = {} THEN 0
    ELSE LET w == CHOOSE x \in S : TRUE IN Len(w) + SumOfLengths(S \ {w})

RECURSIVE SumOfDepths(_)
SumOfDepths(S) ==
    IF S = {} THEN 0
    ELSE LET a == CHOOSE x \in S : TRUE
         IN ParentDepth(T, a) + SumOfDepths(S \ {a})

\* C21: on a non-empty trie height_stats() reports one depth per stored
\* word, the number of edges from the root to its terminal node; min and
\* max are the least and the greatest of them and 1 <= min <= mean <= max.
C21_HeightStats ==
    (last.op = "height_stats" /\ stored # {}) =>
        LET r == last.ret
            h == r.all_heights
        IN /\ Len(h) = Cardinality(stored)
           /\ \A d \in 0..(Cardinality(Reachable(T))) :
                 Occurrences(h, d) = Cardinality(WordsAtDepth(d))
           /\ r.min_height \in Range(h) /\ r.max_height \in Range(h)
           /\ \A i \in 1..Len(h) :
                 r.min_height <= h[i] /\ h[i] <= r.max_height
           /\ 1 <= r.min_height
           /\ r.average_height[2] = Len(h)
           /\ r.average_height[1] =
                 SumOfDepths({a \in Reachable(T) : nodes[a].is_end})
           /\ r.min_height * Len(h) <= r.average_height[1]
           /\ r.average_height[1] <= r.max_height * Len(h)

\* three words, the shallowest one edge and the deepest two edges down
C21_Witness ==
    /\ last.op = "height_stats"
    /\ Cardinality(stored) = 3
    /\ last.ret.min_height = 1
    /\ last.ret.max_height = 2

\* C22: the mode of height_stats() and of word_metrics() is a most
\* frequent value, and the lowest of the most frequent values.
C22_ModeIsLowestMostFrequent ==
    (last.op \in {"height_stats", "word_metrics"} /\ stored # {}) =>
        LET n == Cardinality(Reachable(T)) + 3
            cnt(d) == IF last.op = "height_stats"
                      THEN Cardinality(WordsAtDepth(d))
                      ELSE Cardinality(WordsOfLength(d))
            mode == IF last.op = "height_stats" THEN last.ret.mode_height
                    ELSE last.ret.mode_length
        IN /\ cnt(mode) > 0
           /\ \A d \in 0..n : cnt(d) <= cnt(mode)
           /\ \A d \in 0..n : cnt(d) = cnt(mode) => mode <= d

\* C23: on a non-empty trie word_metrics() reports a length_distribution
\* of max_length + 1 entries, entry k counting the stored words of k
\* bytes (entry 0 is 0); the entries add up to size() and
\* total_characters is the sum of the lengths of the stored words.
C23_WordMetrics ==
    (last.op = "word_metrics" /\ stored # {}) =>
        LET r == last.ret
            ld == r.length_distribution
        IN /\ Len(ld) = r.max_length + 1
           /\ \A w \in stored : Len(w) <= r.max_length
           /\ WordsOfLength(r.max_length) # {}
           /\ \A k \in 0..r.max_length :
                 ld[k + 1] = Cardinality(WordsOfLength(k))
           /\ ld[1] = 0
           /\ accumulate(ld) = size(T)
           /\ r.total_characters = SumOfLengths(stored)

\* words of one and of two bytes, after a remove left a node behind
C23_Witness ==
    /\ last.op = "word_metrics"
    /\ last.ret.length_distribution = <<0, 1, 2>>
    /\ \E a \in NonRoot(T) : ~nodes[a].is_end /\ nodes[a].children = <<>>

\* ------------------------------------------------------------------ clear
\* C24: after clear() the trie answers like a new one: empty() holds,
\* size() is 0, search and starts_with are false for every argument, the
\* enumeration is empty, and an insert that follows gives a trie that
\* holds the inserted word and nothing else.
C24_ClearIsFresh ==
    last.op = "clear" =>
        /\ empty(T)
        /\ size(T) = 0
        /\ \A w \in Strings : ~search(T, w) /\ ~starts_with(T, w)
        /\ words_with_prefix(T, <<>>) = <<>>
        /\ \A w \in Words :
              LET t2 == insert(T, w)
              IN /\ size(t2) = 1
                 /\ words_with_prefix(t2, <<>>) = <<w>>
                 /\ \A v \in Strings : search(t2, v) <=> v = w
                 /\ Cardinality(Owned(t2.nodes, t2.root)) = 2

\* clear() of a trie that held two words or more and a dead leaf
C24_Witness ==
    /\ last.op = "clear"
    /\ Cardinality(pre.stored) >= 2
    /\ \E a \in NonRoot(pre.trie) :
          /\ ~pre.trie.nodes[a].is_end
          /\ pre.trie.nodes[a].children = <<>>

\* ------------------------------------------------------------------ frame
ReadOps ==
    {"search", "starts_with", "words_with_prefix", "empty", "size",
     "height_stats", "memory_stats", "word_metrics", "pattern_search"}

WriteOps == {"insert", "remove", "clear", "bulk_insert_from_file"}

C26_EmptyWordInsert ==
    /\ (last.op = "insert" /\ last.arg = <<>>) =>
          /\ size(T) = size(pre.trie)
          /\ words_with_prefix(T, <<>>) = words_with_prefix(pre.trie, <<>>)
          /\ T = pre.trie
    /\ (/\ last.op = "Seshat.insert"
        /\ \A i \in 1..Len(last.arg) :
              last.arg[i] \in {9, 10, 11, 12, 13, 32}) =>
          /\ last.ret
          /\ T = pre.trie
          /\ size(T) = size(pre.trie)
          /\ words_with_prefix(T, <<>>) = words_with_prefix(pre.trie, <<>>)

\* Seshat.insert("\t ") on a trie that holds two words
C26_Witness ==
    /\ last.op = "Seshat.insert"
    /\ last.arg = <<9, 32>>
    /\ last.ret
    /\ Cardinality(stored) = 2

C28_RawByteOrder ==
    /\ \A a \in Reachable(T) :
          LET v == nodes[a].children
          IN \A i, j \in 1..Len(v) : i < j => v[i].first < v[j].first
    /\ last.op = "words_with_prefix" =>
          \A i, j \in 1..Len(last.ret) :
              i < j => StringLess(last.ret[i], last.ret[j])

\* C29: while the worker thread is inside bulk_insert_from_file (between
\* the opening of the file and the return of the ingest), the JavaScript
\* thread is inside no call on the same trie.
C29_NoCallDuringIngest ==
    ~(pc \in {"loop", "tail"} /\ js.call # <<>>)

C31_IgnoreCase ==
    (ignoreCase /\ Idle) =>
        /\ \A w \in Range(words_with_prefix(T, <<>>)) : w = toLowerCase(w)
        /\ (/\ last.op = "Seshat.search"
            /\ \E w \in stored : toLowerCase(w) = toLowerCase(last.arg))
           => last.ret = TRUE

\* C32: the instance Seshat.fromJSON(t.toJSON()) returns has the option,
\* the size() and the set of stored words of t.
C32_JsonRoundTrip ==
    last.op = "Seshat.fromJSON" =>
        /\ ~last.ret.threw
        /\ last.ret.ignoreCase = ignoreCase
        /\ last.ret.size = size(T)
        /\ Range(last.ret.words) = Range(words_with_prefix(T, <<>>))

\* the bytes on the way from the root to the node a
RECURSIVE Spelled(_, _)
Spelled(t, a) ==
    IF t.nodes[a].parent = NULL THEN <<>>
    ELSE Spelled(t, t.nodes[a].parent) \o t.nodes[a].key

\* what is left of the word w below the parent of the node c
RestBelow(t, c, w) ==
    SubSeq(w, Len(Spelled(t, t.nodes[c].parent)) + 1, Len(w))

\* the insert of w into t stops inside the edge label of the node c: it
\* reaches the parent of c, and the rest of w shares k bytes with the key
\* of c, 0 < k < |key|
StopsInside(t, c, w) ==
    LET k == common_prefix_length(t.nodes[c].key, RestBelow(t, c, w))
    IN /\ IsPrefix(Spelled(t, t.nodes[c].parent), w)
       /\ 0 < k
       /\ k < Len(t.nodes[c].key)

\* C33: when insert(w) stops inside the label e of a node c after k
\* bytes, a new node m with key e[0..k] takes the slot of c in the child
\* list of c's parent; c keeps its is_end flag and its subtree, gets the
\* key e[k..] and the parent m; m is terminal exactly when w ends at the
\* split point, having then c as its only child, and otherwise has a
\* second child, a new terminal leaf that holds the rest of w.
C33_Split ==
    last.op = "insert" =>
        \A c \in NonRoot(pre.trie) :
            StopsInside(pre.trie, c, last.arg) =>
                LET old == pre.trie.nodes
                    e == old[c].key
                    p == old[c].parent
                    rest == RestBelow(pre.trie, c, last.arg)
                    k == common_prefix_length(e, rest)
                    m == nodes[c].parent
                    kids == nodes[m].children
                IN /\ m \in Reachable(T) \ DOMAIN old
                   /\ nodes[m].key = SubSeq(e, 1, k)
                   /\ nodes[m].parent = p
                   /\ Len(nodes[p].children) = Len(old[p].children)
                   /\ \A i \in 1..Len(old[p].children) :
                         nodes[p].children[i] =
                            IF old[p].children[i].second = c
                            THEN [first |-> e[1], second |-> m]
                            ELSE old[p].children[i]
                   /\ nodes[c] = [old[c] EXCEPT !.key = SubSeq(e, k + 1, Len(e)),
                                                !.parent = m,
                                                !.parent_char = e[k + 1]]
                   /\ \A d \in Owned(old, c) \ {c} : nodes[d] = old[d]
                   /\ nodes[m].is_end <=> (k = Len(rest))
                   /\ \E i \in 1..Len(kids) : kids[i].second = c
                   /\ IF k = Len(rest)
                      THEN Len(kids) = 1
                      ELSE /\ Len(kids) = 2
                           /\ \E i \in 1..2 :
                                 LET leaf == kids[i].second
                                 IN /\ leaf \notin DOMAIN old
                                    /\ nodes[leaf].key =
                                          SubSeq(rest, k + 1, Len(rest))
                                    /\ nodes[leaf].is_end
                                    /\ nodes[leaf].children = <<>>
                                    /\ nodes[leaf].parent = m

\* "ab" is stored and "aa" is inserted: a non-terminal "a" with the
\* children "a" and "b"
C33_Witness ==
    /\ last.op = "insert"
    /\ last.arg = <<97, 97>>
    /\ \E c \in NonRoot(pre.trie) :
          /\ StopsInside(pre.trie, c, last.arg)
          /\ pre.trie.nodes[c].key = <<97, 98>>
          /\ nodes[c].key = <<98>>
          /\ ~nodes[nodes[c].parent].is_end
          /\ Len(nodes[nodes[c].parent].children) = 2

\* C37: after every call the parent pointer of the root is null and the
\* parent pointer of every other node of the trie is the node whose child
\* list holds it, the intermediate node and the demoted child of a split
\* included.
C37_ParentLinks ==
    /\ nodes[root].parent = NULL
    /\ \A a \in Reachable(T) :
          \A i \in 1..Len(nodes[a].children) :
              nodes[nodes[a].children[i].second].parent = a

\* "ab" is stored and "a" is inserted: the node of "ab" is now below a new
\* intermediate node, which hangs where that node hung
C37_Witness ==
    /\ last.op = "insert"
    /\ last.arg = <<97>>
    /\ \E c \in NonRoot(pre.trie) :
          /\ StopsInside(pre.trie, c, last.arg)
          /\ nodes[c].parent \notin DOMAIN pre.trie.nodes
          /\ nodes[nodes[c].parent].parent = pre.trie.nodes[c].parent

\* C34: memory_stats on a trie that stores no word, one whose words were
\* all removed included, reports one node, no string bytes, overhead equal
\* to the total and 0 bytes per word; on a trie that stores words the
\* overhead is the total less the string bytes, and the total is the
\* header plus node_count nodes plus the string bytes.
C34_MemoryStatsShape ==
    last.op = "memory_stats" =>
        IF stored = {}
        THEN /\ last.ret.node_count = 1
             /\ last.ret.string_bytes = 0
             /\ last.ret.overhead_bytes = last.ret.total_bytes
             /\ last.ret.bytes_per_word[1] = 0
        ELSE /\ last.ret.overhead_bytes =
                   last.ret.total_bytes - last.ret.string_bytes
             /\ last.ret.total_bytes =
                   SizeofRadixTrie
                   + last.ret.node_count * SizeofRadixNode
                   + last.ret.string_bytes

\* memory_stats after the only word was removed: its node is still there
C34_Witness ==
    /\ last.op = "memory_stats"
    /\ stored = {}
    /\ Cardinality(Reachable(T)) > 1
    /\ last.ret.node_count = 1

\* the bytes of f[1..n] after its last delimiter: the piece still open
OpenPiece(f, n) ==
    LET d == {k \in 1..n : f[k] \in {10, 13}}
        lo == IF d = {} THEN 0 ELSE CHOOSE k \in d : \A m \in d : m <= k
    IN SubSeq(f, lo + 1, n)

\* the records of f[1..n] that a delimiter has closed
ClosedRecords(f, n) ==
    {iv \in RefRecords(SubSeq(f, 1, n)) : iv[2] < n}

\* the ingest is between two chunks or before its last step
InLoop == pc \in {"loop", "tail"} /\ ~stream.badbit

\* Between the chunks the carry is the open piece of the bytes read so
\* far, the count is the number of closed records and the trie holds
\* their words.
CarryBetweenChunks ==
    InLoop =>
        LET n == stream.pos
        IN /\ carry = OpenPiece(file, n)
           /\ \A i \in 1..Len(carry) : carry[i] \notin {10, 13}
           /\ words_inserted = Cardinality(ClosedRecords(file, n))
           /\ Range(words_with_prefix(T, <<>>)) =
                 pre.stored \cup
                 {RefWord(SubSeq(file, 1, n), iv) :
                     iv \in ClosedRecords(file, n)}

\* the file ends with a record that no delimiter closes: the step after
\* the loop emits it
LastRecordOpen ==
    \E i \in 1..Len(OpenPiece(file, Len(file))) :
        OpenPiece(file, Len(file))[i] \notin {9, 10, 11, 12, 13, 32}

\* C35 as stated: a record that spans chunks is inserted once, as the
\* trimmed concatenation of its pieces; the carry holds no delimiter and
\* is empty right after each record is emitted, the last one included.
C35_CarryEmptyAfterEveryRecord ==
    /\ CarryBetweenChunks
    /\ IngestDone => last.ret.count = Cardinality(RefRecords(file))
    /\ (IngestDone /\ LastRecordOpen) => carry = <<>>

\* C35, amended: a record that spans chunks is inserted once, as the
\* trimmed concatenation of its pieces; the carry holds no delimiter and
\* is empty right after each record that a delimiter ends; the last
\* record of a file that does not end with a delimiter is emitted from
\* the carry after the loop, and the carry keeps its bytes.
C35_CarryAcrossChunks ==
    /\ CarryBetweenChunks
    /\ IngestDone => last.ret.count = Cardinality(RefRecords(file))
    /\ IngestDone => carry = OpenPiece(file, Len(file))

\* " aa\n" read one byte at a time: the record " aa" came in three chunks
\* and was emitted once, as "aa", by the delimiter of the fourth
C35_Witness ==
    /\ InLoop
    /\ buffer_size = 1
    /\ file = <<32, 97, 97, 10>>
    /\ stream.pos = 4
    /\ carry = <<>>
    /\ words_inserted = 1
    /\ words_with_prefix(T, <<>>) = << <<97, 97>> >>

\* x comes before y as strings of char: a proper prefix first, else by
\* the first char that differs
RECURSIVE CharStringLess(_, _)
CharStringLess(x, y) ==
    IF y = <<>> THEN FALSE
    ELSE IF x = <<>> THEN TRUE
    ELSE IF x[1] # y[1] THEN CharLess(x[1], y[1])
    ELSE CharStringLess(Tail(x), Tail(y))

\* the one ascending arrangement of a set of words
RECURSIVE Arranged(_)
Arranged(S) ==
    IF S = {} THEN <<>>
    ELSE LET m == CHOOSE x \in S : \A y \in S \ {x} : CharStringLess(x, y)
         IN <<m>> \o Arranged(S \ {m})

\* C36: whatever the inserts and removes that led to it, a trie that
\* stores the set S answers words_with_prefix(p) with one sequence that S
\* and p determine, the ascending arrangement of the words of S that
\* begin with p: two histories that end with the same stored set get
\* identical answers.
C36_OrderDependsOnSetOnly ==
    /\ \A p \in Strings :
          words_with_prefix(T, p) = Arranged({w \in stored : IsPrefix(p, w)})
    /\ last.op = "words_with_prefix" =>
          last.ret = Arranged({w \in stored : IsPrefix(last.arg, w)})

\* words_with_prefix returns two words from a trie in which a removed
\* word has left its node, the younger word first
C36_Witness ==
    /\ last.op = "words_with_prefix"
    /\ last.ret = << <<97, 97>>, <<97, 98>> >>
    /\ \E a \in NonRoot(T) : ~nodes[a].is_end /\ nodes[a].children = <<>>
    /\ search(pre.trie, <<97, 98>>)

C39_IngestTerminates ==
    /\ (pc = "loop") ~> (pc = "done")
    /\ [][(pc = "loop" /\ pc' = "loop") => stream'.pos > stream.pos]_vars
    /\ [][(pc = "loop" /\ pc' = "tail") =>
             (stream'.eofbit \/ stream'.pos = stream.pos)]_vars
    /\ [][(pc' = "done" /\ pc # "done") => pc = "tail"]_vars

\* "aaa" read one byte at a time has returned: three chunks, then a read
\* that delivered nothing
C39_Witness ==
    /\ pc = "done"
    /\ file = <<97, 97, 97>>
    /\ buffer_size = 1
    /\ stream.eofbit
    /\ stream.pos = 3
    /\ last.ret.count = 1

====
